---- MODULE Spec2Model ----
(***************************************************************************)
(* A state-machine model of the musikquizapp request handlers.  The state  *)
(* is the content of the key-value store (one variable per table); every   *)
(* handler is an action.  Handlers with a read-then-write gap that matters *)
(* under concurrent invocation (join_session, submit_answer) are split at  *)
(* that gap: the first step performs the reads and leaves the invocation   *)
(* in flight, the second performs the writes.  A store call that can raise *)
(* is a nondeterministic choice, limited by a fault budget.                *)
(***************************************************************************)
EXTENDS Integers, Sequences, FiniteSets, TLC

VARIABLES
    tenants,         \* Tenants table: tenantId -> status, or None
    sessions,        \* QuizSessions table: sessionId -> row (a function on the stored keys)
    rounds,          \* QuizRounds table: set of rows keyed by (sessionId, roundNumber)
    participants,    \* GlobalParticipants table: participantId -> row
    participations,  \* SessionParticipations table: sequence of rows in index order
    answers,         \* Answers table: set of rows keyed by answerId
    inflight,        \* per concurrent invocation: the handler's locals between its steps
    response,        \* the response returned by the handler that finished last
    nextId,          \* source of fresh participationId values (uuid4)
    nextAnswer,      \* source of fresh answerId values (uuid4)
    faults,          \* number of store calls that have raised so far
    addOk,           \* per session: number of add-round requests answered 201
    created,         \* number of session ids handed out so far
    calc,            \* inputs and result of the computation a specification singles out
    admins,          \* Admins table: adminId -> row (a function on the stored keys)
    tokens,          \* the bearer tokens issued to admins that have not expired
    nextAdmin,       \* source of fresh adminId values (uuid4)
    deleted          \* history: the credentials of the admins deleted so far whose
                     \* username no admin has been given since

vars == <<tenants, sessions, rounds, participants, participations, answers,
          inflight, response, nextId, nextAnswer, faults, addOk, created, calc,
          admins, tokens, nextAdmin, deleted>>

----------------------------------------------------------------------------
(* Universe and bounds *)

None == "none"

TenantIds == {"t1", "t2"}
SessionOrder == <<"s1", "s2">>
SessionIds == {SessionOrder[i] : i \in DOMAIN SessionOrder}
ParticipantIds == {"p1", "p2"}
WorkerOrder == <<"w1", "w2">>
Workers == {WorkerOrder[i] : i \in DOMAIN WorkerOrder}

MaxFaults == 1
MaxJoins == 3
MaxAnswers == 1

MAX_ROUNDS_PER_SESSION == 30

AdminRoles == {"admin", "tenant_admin", "super_admin"}

\* Token payloads an admin endpoint can receive: a super admin, one tenant
\* admin per tenant, a legacy admin record (no role, no tenantId: admin_login
\* defaults the role to tenant_admin and generate_token omits tenantId), and
\* a participant token.
AdminCallers ==
    {[role |-> "super_admin", tenantId |-> None]}
    \cup {[role |-> "tenant_admin", tenantId |-> t] : t \in TenantIds}
    \cup {[role |-> "tenant_admin", tenantId |-> None]}
    \cup {[role |-> "participant", tenantId |-> "t1"]}

\* Any bearer of a token, or none at all, can call a public endpoint.
AnyCallers == AdminCallers \cup {[role |-> None, tenantId |-> None]}

----------------------------------------------------------------------------
(* Responses *)

Resp(status, code, id) == [status |-> status, code |-> code, id |-> id]

NoResponse == Resp(0, None, 0)

error_response(status, code) == Resp(status, code, 0)

----------------------------------------------------------------------------
(* Tenant access validation *)

\* tenant_middleware.validate_tenant_access: TRUE when access is allowed
validate_tenant_access_mw(tenant_context, resource_tenant_id) ==
    IF tenant_context.role = "super_admin" THEN TRUE
    ELSE tenant_context.tenantId = resource_tenant_id

\* A value Python takes as false where a tenant id is expected: a missing
\* attribute (None) or the empty string
Falsy(tenant_id) == tenant_id \in {None, ""}

\* A decision without the passthrough for a resource that has no tenantId
validate_tenant_access_strict(resource_tenant_id, user_tenant_id, user_role) ==
    IF user_role = "super_admin" THEN TRUE
    ELSE resource_tenant_id = user_tenant_id

\* db.validate_tenant_access: TRUE when access is allowed
validate_tenant_access_db(resource_tenant_id, user_tenant_id, user_role) ==
    IF user_role = "super_admin" THEN TRUE
    ELSE IF Falsy(resource_tenant_id) THEN TRUE
    ELSE IF Falsy(user_tenant_id) THEN FALSE
    ELSE resource_tenant_id = user_tenant_id

\* The tenant check as the admin handlers make it: the validator of
\* tenant_middleware is called only for a session that has a tenantId
session_tenant_check(tenant_context, session_tenant_id) ==
    IF Falsy(session_tenant_id) THEN TRUE
    ELSE validate_tenant_access_mw(tenant_context, session_tenant_id)

\* A validation that only asks for the row of the tenant
validate_tenant_exists(tenant_id) ==
    IF tenants[tenant_id] = None THEN "TENANT_NOT_FOUND" ELSE None

\* tenant_middleware.validate_tenant_active: the error code, or None
validate_tenant_active(tenant_id) ==
    IF tenants[tenant_id] = None THEN "TENANT_NOT_FOUND"
    ELSE IF tenants[tenant_id] # "active" THEN "TENANT_INACTIVE"
    ELSE None

\* tenant_middleware.require_tenant_admin: the error response, or NoResponse
require_tenant_admin(caller) ==
    IF caller.role = None THEN error_response(401, "MISSING_TOKEN")
    ELSE IF caller.role \notin AdminRoles
        THEN error_response(403, "INSUFFICIENT_PERMISSIONS")
    ELSE IF caller.tenantId # None /\ validate_tenant_active(caller.tenantId) # None
        THEN error_response(
                 IF validate_tenant_active(caller.tenantId) = "TENANT_NOT_FOUND"
                     THEN 404 ELSE 400,
                 validate_tenant_active(caller.tenantId))
    ELSE NoResponse

\* The inline token and role check of add_round, update_session, start_round,
\* reset_points and clear_participants: the error response, or NoResponse
inline_admin_check(caller) ==
    IF caller.role = None THEN error_response(401, "MISSING_TOKEN")
    ELSE IF caller.role \notin AdminRoles
        THEN error_response(403, "INSUFFICIENT_PERMISSIONS")
    ELSE NoResponse

----------------------------------------------------------------------------
(* Tables and rows *)

\* put_item and delete_item on a table kept as a function on its stored keys
Put(table, key, row) ==
    [k \in DOMAIN table \cup {key} |-> IF k = key THEN row ELSE table[k]]

Del(table, key) == [k \in DOMAIN table \ {key} |-> table[k]]

EmptyTable == [k \in {} |-> None]

\* A session row that carries no tenant
SessionRowUntenanted(tenantId, mediaType) ==
    [tenantId |-> None, mediaType |-> mediaType, status |-> "draft",
     roundCount |-> 0, roundStartedAt |-> <<>>]

SessionRow(tenantId, mediaType) ==
    [tenantId |-> tenantId, status |-> "draft", roundCount |-> 0,
     roundStartedAt |-> <<>>, mediaType |-> mediaType]

RoundRow(s, n, body) ==
    [sessionId |-> s, roundNumber |-> n,
     correctAnswer |-> body.correctAnswer, audioKey |-> body.audioKey]

RoundsOf(s) == {r \in rounds : r.sessionId = s}

\* db.put_item on the rounds table: a row with the same key is replaced
PutRound(row) ==
    {r \in rounds : ~(r.sessionId = row.sessionId /\ r.roundNumber = row.roundNumber)}
    \cup {row}

\* The locals of an invocation that is not running
Idle ==
    [op |-> "idle", participantId |-> None, sessionId |-> None, tenantId |-> None,
     participationId |-> 0, roundNumber |-> 0, answer |-> 0, isCorrect |-> FALSE,
     points |-> 0, totalPoints |-> 0, correctAnswers |-> 0]

\* Invocations are anonymous: a new request takes the first free slot
FirstIdle(w) ==
    /\ inflight[w] = Idle
    /\ \A i, j \in DOMAIN WorkerOrder :
           WorkerOrder[j] = w /\ i < j => inflight[WorkerOrder[i]] # Idle

\* uuid4 for a new session: an id that was never handed out before
FreshSession == SessionOrder[created + 1]

----------------------------------------------------------------------------
(* create_quiz *)

MediaTypes == {"none", "audio", "image"}

CreateQuiz(caller, media_type, put_fails) ==
    /\ created < Len(SessionOrder)
    /\ put_fails => faults < MaxFaults
    /\ IF require_tenant_admin(caller) # NoResponse
          THEN /\ response' = require_tenant_admin(caller)
               /\ UNCHANGED <<sessions, created, faults>>
       ELSE IF caller.tenantId = None /\ caller.role = "super_admin"
          THEN /\ response' = error_response(400, "MISSING_TENANT_ID")
               /\ UNCHANGED <<sessions, created, faults>>
       ELSE IF put_fails
          THEN /\ response' = error_response(500, "DATABASE_ERROR")
               /\ faults' = faults + 1
               /\ created' = created + 1
               /\ UNCHANGED sessions
       ELSE /\ sessions' = Put(sessions, FreshSession,
                                SessionRow(caller.tenantId, media_type))
            /\ created' = created + 1
            /\ response' = Resp(201, "OK", 0)
            /\ UNCHANGED faults
    /\ UNCHANGED <<admins, tokens, nextAdmin, deleted,
                   tenants, rounds, participants, participations, answers,
                   inflight, nextId, nextAnswer, addOk, calc>>

----------------------------------------------------------------------------
(* add_round *)

\* The tenant check shared by the session handlers: it is skipped for a
\* session without tenantId
SessionAccessDenied(caller, s) ==
    /\ sessions[s].tenantId # None
    /\ ~validate_tenant_access_mw(caller, sessions[s].tenantId)

\* A request body that passes the field validation of add_round for the
\* session's media type
ValidRoundBody(s, body) ==
    /\ sessions[s].mediaType = "audio" => body.audioKey
    /\ body.correctAnswer \in 0..3

AddRound(caller, s, body, put_fails, update_fails) ==
    /\ (put_fails \/ update_fails) => faults < MaxFaults
    /\ LET current_round_count ==
               IF s \notin DOMAIN sessions THEN 0 ELSE sessions[s].roundCount
           round_number == current_round_count + 1
       IN
       IF inline_admin_check(caller) # NoResponse
          THEN /\ response' = inline_admin_check(caller)
               /\ UNCHANGED <<sessions, rounds, faults, addOk>>
       ELSE IF s \notin DOMAIN sessions
          THEN /\ response' = error_response(404, "SESSION_NOT_FOUND")
               /\ UNCHANGED <<sessions, rounds, faults, addOk>>
       ELSE IF SessionAccessDenied(caller, s)
          THEN /\ response' = error_response(403, "CROSS_TENANT_ACCESS")
               /\ UNCHANGED <<sessions, rounds, faults, addOk>>
       ELSE IF current_round_count >= MAX_ROUNDS_PER_SESSION
          THEN /\ response' = error_response(409, "MAX_ROUNDS_REACHED")
               /\ UNCHANGED <<sessions, rounds, faults, addOk>>
       ELSE IF ~ValidRoundBody(s, body)
          THEN /\ response' = error_response(400, "MISSING_FIELDS")
               /\ UNCHANGED <<sessions, rounds, faults, addOk>>
       ELSE IF put_fails
          THEN /\ response' = error_response(500, "DATABASE_ERROR")
               /\ faults' = faults + 1
               /\ UNCHANGED <<sessions, rounds, addOk>>
       ELSE /\ rounds' = PutRound(RoundRow(s, round_number, body))
            /\ IF update_fails
                  THEN faults' = faults + 1 /\ UNCHANGED sessions
                  ELSE /\ sessions' = [sessions EXCEPT ![s].roundCount = round_number]
                       /\ UNCHANGED faults
            /\ addOk' = [addOk EXCEPT ![s] = @ + 1]
            /\ response' = Resp(201, "OK", round_number)
    /\ UNCHANGED <<admins, tokens, nextAdmin, deleted,
                   tenants, participants, participations, answers,
                   inflight, nextId, nextAnswer, created, calc>>

----------------------------------------------------------------------------
(* get_quiz *)

\* A public endpoint: the caller's token is never read
GetQuiz(caller, s, query_fails) ==
    /\ query_fails => faults < MaxFaults
    /\ IF s \notin DOMAIN sessions
          THEN response' = error_response(404, "SESSION_NOT_FOUND")
          ELSE response' = Resp(200, "OK", IF query_fails THEN 0
                                           ELSE Cardinality(RoundsOf(s)))
    /\ faults' = IF query_fails /\ s \in DOMAIN sessions THEN faults + 1 ELSE faults
    /\ UNCHANGED <<admins, tokens, nextAdmin, deleted,
                   tenants, sessions, rounds, participants, participations,
                   answers, inflight, nextId, nextAnswer, addOk, created, calc>>

----------------------------------------------------------------------------
(* Participant authentication *)

\* Token payloads a participant endpoint can receive: a participant token for
\* any (participant, tenant) pair, an admin token, and no token at all
ParticipantCallers ==
    {[role |-> "participant", sub |-> p, tenantId |-> t] :
        p \in ParticipantIds, t \in TenantIds}
    \cup {[role |-> "tenant_admin", sub |-> None, tenantId |-> "t1"],
          [role |-> None, sub |-> None, tenantId |-> None]}

\* participant_middleware.extract_participant_from_token
extract_participant_from_token(token) ==
    IF token.role = None THEN error_response(401, "MISSING_TOKEN")
    ELSE IF token.role # "participant"
        THEN error_response(403, "INSUFFICIENT_PERMISSIONS")
    ELSE IF token.sub = None \/ token.tenantId = None
        THEN error_response(401, "INVALID_TOKEN")
    ELSE NoResponse

\* require_participant_auth without the comparison of the tenant ids
require_participant_exists(token, get_fails) ==
    IF extract_participant_from_token(token) # NoResponse
        THEN extract_participant_from_token(token)
    ELSE IF get_fails THEN error_response(500, "DATABASE_ERROR")
    ELSE IF token.sub \notin DOMAIN participants
        THEN error_response(404, "PARTICIPANT_NOT_FOUND")
    ELSE NoResponse

\* participant_middleware.require_participant_auth: the error response, or
\* NoResponse when the caller is authenticated
require_participant_auth(token, get_fails) ==
    IF extract_participant_from_token(token) # NoResponse
        THEN extract_participant_from_token(token)
    ELSE IF get_fails THEN error_response(500, "DATABASE_ERROR")
    ELSE IF token.sub \notin DOMAIN participants
        THEN error_response(404, "PARTICIPANT_NOT_FOUND")
    ELSE IF participants[token.sub].tenantId # token.tenantId
        THEN error_response(401, "INVALID_TOKEN")
    ELSE NoResponse

\* participant_middleware.validate_participant_tenant_access: TRUE when allowed
validate_participant_tenant_access(participant_context, resource_tenant_id) ==
    participant_context.tenantId = resource_tenant_id

----------------------------------------------------------------------------
(* SessionParticipations *)

ParticipationRow(id, p, s, t) ==
    [participationId |-> id, participantId |-> p, sessionId |-> s, tenantId |-> t,
     totalPoints |-> 0, correctAnswers |-> 0]

\* A lookup that forgets the participant: the first row of the session
FindBySession(p, s) ==
    LET hits == {i \in DOMAIN participations : participations[i].sessionId = s}
    IN IF hits = {} THEN 0
       ELSE CHOOSE i \in hits : \A j \in hits : i <= j

\* query(ParticipantIndex) followed by the loop that stops at the first row of
\* the session: the index of that row, or 0
FindParticipation(p, s) ==
    LET hits == {i \in DOMAIN participations :
                    /\ participations[i].participantId = p
                    /\ participations[i].sessionId = s}
    IN IF hits = {} THEN 0
       ELSE CHOOSE i \in hits : \A j \in hits : i <= j

IndexOfId(id) ==
    LET hits == {i \in DOMAIN participations : participations[i].participationId = id}
    IN IF hits = {} THEN 0 ELSE CHOOSE i \in hits : TRUE

\* The rows of a sequence that satisfy keep, in their order
RECURSIVE SelectRows(_, _)
SelectRows(rows, keep) ==
    IF rows = <<>> THEN <<>>
    ELSE IF Head(rows).participationId \in keep
        THEN <<Head(rows)>> \o SelectRows(Tail(rows), keep)
        ELSE SelectRows(Tail(rows), keep)

----------------------------------------------------------------------------
(* join_session *)

\* The store calls of join_session that can raise before the put
JoinFaults == {"none", "participant_get", "session_get", "query"}

\* as_decimal: the store hands the numbers of a row back as Decimal, as the
\* boto3 resource behind db.query does (the test doubles hand back int).
\* json.dumps of such a row raises TypeError inside the try block of lines
\* 110-139, whose handler swallows every exception and goes on to create a row.
JoinStart(w, token, s, fault, as_decimal) ==
    /\ FirstIdle(w)
    /\ fault # "none" => faults < MaxFaults
    /\ LET auth == require_participant_auth(token, fault = "participant_get")
           existing == IF fault = "query" THEN 0 ELSE FindParticipation(token.sub, s)
           Reply(r) == /\ response' = r
                       /\ UNCHANGED inflight
       IN
       IF auth # NoResponse
          THEN /\ fault \in {"none", "participant_get"}
               /\ fault = "participant_get" => auth.status = 500
               /\ ~as_decimal
               /\ Reply(auth)
       ELSE IF fault = "session_get"
          THEN ~as_decimal /\ Reply(error_response(500, "DATABASE_ERROR"))
       ELSE IF s \notin DOMAIN sessions
          THEN /\ fault = "none" /\ ~as_decimal
               /\ Reply(error_response(404, "SESSION_NOT_FOUND"))
       ELSE IF /\ sessions[s].tenantId # None
               /\ ~validate_participant_tenant_access(token, sessions[s].tenantId)
          THEN /\ fault = "none" /\ ~as_decimal
               /\ Reply(error_response(403, "CROSS_TENANT_ACCESS"))
       ELSE IF existing # 0 /\ ~as_decimal
          THEN Reply(Resp(200, "OK", participations[existing].participationId))
       ELSE /\ as_decimal => existing # 0
            /\ inflight' = [inflight EXCEPT ![w] =
                   [Idle EXCEPT !.op = "join",
                                !.participantId = token.sub,
                                !.sessionId = s,
                                !.tenantId = IF sessions[s].tenantId # None
                                                THEN sessions[s].tenantId
                                                ELSE token.tenantId]]
            /\ UNCHANGED response
    /\ faults' = IF fault = "none" THEN faults ELSE faults + 1
    /\ UNCHANGED <<admins, tokens, nextAdmin, deleted,
                   tenants, sessions, rounds, participants, participations,
                   answers, nextId, nextAnswer, addOk, created, calc>>

JoinPut(w, put_fails) ==
    /\ inflight[w].op = "join"
    /\ IF put_fails
          THEN /\ faults < MaxFaults
               /\ faults' = faults + 1
               /\ response' = error_response(500, "DATABASE_ERROR")
               /\ UNCHANGED <<participations, nextId>>
          ELSE /\ nextId <= MaxJoins
               /\ participations' = Append(participations,
                      ParticipationRow(nextId, inflight[w].participantId,
                                       inflight[w].sessionId, inflight[w].tenantId))
               /\ nextId' = nextId + 1
               /\ response' = Resp(201, "OK", nextId)
               /\ UNCHANGED faults
    /\ inflight' = [inflight EXCEPT ![w] = Idle]
    /\ UNCHANGED <<admins, tokens, nextAdmin, deleted,
                   tenants, sessions, rounds, participants, answers,
                   nextAnswer, addOk, created, calc>>

----------------------------------------------------------------------------
(* submit_answer *)

\* The tiers with the bounds excluded: 10 only below 2 seconds, 8 only below 5
CalcPointsStrict(answer, correct_answer, started, now, get_fails) ==
    IF answer # correct_answer THEN 0
    ELSE IF get_fails THEN 5
    ELSE IF started # <<>>
        THEN LET response_time == now - started[1]
             IN IF response_time < 2 THEN 10
                ELSE IF response_time < 5 THEN 8
                ELSE 5
    ELSE 5

\* The points of submit_answer, lines 149-176.  started is the session's
\* roundStartedAt (<<>> when none was recorded), now is the handler's clock
\* reading, get_fails says that re-reading the session raised.
CalcPoints(answer, correct_answer, started, now, get_fails) ==
    IF answer # correct_answer THEN 0
    ELSE IF get_fails THEN 5
    ELSE IF started # <<>>
        THEN LET response_time == now - started[1]
             IN IF response_time <= 2 THEN 10
                ELSE IF response_time <= 5 THEN 8
                ELSE 5
    ELSE 5

\* An Answer row keyed by the round instead of a fresh answerId
AnswerRowPerRound(id, l) ==
    [answerId |-> l.roundNumber, participantId |-> l.participantId,
     participationId |-> l.participationId, sessionId |-> l.sessionId,
     roundNumber |-> l.roundNumber, answer |-> l.answer,
     isCorrect |-> l.isCorrect, points |-> l.points]

AnswerRow(id, l) ==
    [answerId |-> id, participantId |-> l.participantId,
     participationId |-> l.participationId, sessionId |-> l.sessionId,
     roundNumber |-> l.roundNumber, answer |-> l.answer,
     isCorrect |-> l.isCorrect, points |-> l.points]

RoundAt(s, n) == {r \in rounds : r.sessionId = s /\ r.roundNumber = n}

\* The store calls of submit_answer that can raise before the put
SubmitFaults == {"none", "query", "session_get", "round_get", "points_get"}

\* No token is read: the participant is the participantId of the body
SubmitStart(w, p, s, n, answer, now, fault) ==
    /\ FirstIdle(w)
    /\ fault # "none" => faults < MaxFaults
    /\ LET found == FindParticipation(p, s)
           Reply(r) == /\ response' = r
                       /\ UNCHANGED inflight
       IN
       IF fault = "query"
          THEN Reply(error_response(500, "DATABASE_ERROR"))
       ELSE IF found = 0
          THEN fault = "none" /\ Reply(error_response(404, "PARTICIPATION_NOT_FOUND"))
       ELSE IF fault = "session_get"
          THEN Reply(error_response(500, "DATABASE_ERROR"))
       ELSE IF s \notin DOMAIN sessions
          THEN fault = "none" /\ Reply(error_response(404, "SESSION_NOT_FOUND"))
       ELSE IF sessions[s].status = "completed"
          THEN fault = "none" /\ Reply(error_response(403, "SESSION_COMPLETED"))
       ELSE IF fault = "round_get"
          THEN Reply(error_response(500, "DATABASE_ERROR"))
       ELSE IF RoundAt(s, n) = {}
          THEN fault = "none" /\ Reply(error_response(404, "ROUND_NOT_FOUND"))
       ELSE LET round_item == CHOOSE r \in RoundAt(s, n) : TRUE
                is_correct == answer = round_item.correctAnswer
            IN /\ fault = "points_get" => is_correct
               /\ inflight' = [inflight EXCEPT ![w] =
                      [op |-> "submit", participantId |-> p, sessionId |-> s,
                       tenantId |-> participations[found].tenantId,
                       participationId |-> participations[found].participationId,
                       roundNumber |-> n, answer |-> answer,
                       isCorrect |-> is_correct,
                       points |-> CalcPoints(answer, round_item.correctAnswer,
                                             sessions[s].roundStartedAt, now,
                                             fault = "points_get"),
                       totalPoints |-> participations[found].totalPoints,
                       correctAnswers |-> participations[found].correctAnswers]]
               /\ UNCHANGED response
    /\ faults' = IF fault = "none" THEN faults ELSE faults + 1
    /\ UNCHANGED <<admins, tokens, nextAdmin, deleted,
                   tenants, sessions, rounds, participants, participations,
                   answers, nextId, nextAnswer, addOk, created, calc>>

\* The request as it arrives: token is the payload of the bearer token in
\* its Authorization header, which the handler does not look at
SubmitRequest(token, w, p, s, n, answer, now, fault) ==
    SubmitStart(w, p, s, n, answer, now, fault)

\* An update keyed on the participant instead of the participation: every
\* row of the participant who holds row id gets the counters
UpdateCountersOfParticipant(id, total_points, correct_answers) ==
    [i \in DOMAIN participations |->
        IF IndexOfId(id) # 0
           /\ participations[i].participantId =
                  participations[IndexOfId(id)].participantId
            THEN [participations[i] EXCEPT !.totalPoints = total_points,
                                           !.correctAnswers = correct_answers]
            ELSE participations[i]]

\* An update that sets totalPoints and leaves correctAnswers as stored
UpdateTotalOnly(id, total_points, correct_answers) ==
    IF IndexOfId(id) # 0
        THEN [participations EXCEPT ![IndexOfId(id)].totalPoints = total_points]
        ELSE participations

\* db.update_item on SessionParticipations: SET totalPoints, correctAnswers on
\* the row with this key; the call carries no condition, so a key that is no
\* longer stored yields a row holding only the key and the two counters
UpdateCounters(id, total_points, correct_answers) ==
    IF IndexOfId(id) # 0
        THEN [participations EXCEPT
                 ![IndexOfId(id)].totalPoints = total_points,
                 ![IndexOfId(id)].correctAnswers = correct_answers]
        ELSE Append(participations,
                 [participationId |-> id, participantId |-> None,
                  sessionId |-> None, tenantId |-> None,
                  totalPoints |-> total_points, correctAnswers |-> correct_answers])

SubmitWrite(w, put_fails, update_fails) ==
    /\ inflight[w].op = "submit"
    /\ (put_fails \/ update_fails) => faults < MaxFaults
    /\ ~(put_fails /\ update_fails)
    /\ LET l == inflight[w]
           new_total_points == l.totalPoints + l.points
           new_correct_answers == l.correctAnswers + (IF l.isCorrect THEN 1 ELSE 0)
       IN
       IF put_fails
          THEN /\ response' = error_response(500, "DATABASE_ERROR")
               /\ UNCHANGED <<answers, participations, nextAnswer>>
          ELSE /\ answers' = answers \cup {AnswerRow(nextAnswer, l)}
               /\ nextAnswer' = nextAnswer + 1
               /\ participations' =
                      IF update_fails THEN participations
                      ELSE UpdateCounters(l.participationId, new_total_points,
                                          new_correct_answers)
               /\ response' = Resp(201, "OK", nextAnswer)
    /\ faults' = IF put_fails \/ update_fails THEN faults + 1 ELSE faults
    /\ inflight' = [inflight EXCEPT ![w] = Idle]
    /\ UNCHANGED <<admins, tokens, nextAdmin, deleted,
                   tenants, sessions, rounds, participants, nextId, addOk,
                   created, calc>>

----------------------------------------------------------------------------
(* start_round and update_session *)

StartRound(caller, s, n, now, update_fails) ==
    /\ update_fails => faults < MaxFaults
    /\ IF inline_admin_check(caller) # NoResponse
          THEN /\ ~update_fails
               /\ response' = inline_admin_check(caller)
               /\ UNCHANGED <<sessions, faults>>
       ELSE IF s \notin DOMAIN sessions
          THEN /\ ~update_fails
               /\ response' = error_response(404, "SESSION_NOT_FOUND")
               /\ UNCHANGED <<sessions, faults>>
       ELSE IF SessionAccessDenied(caller, s)
          THEN /\ ~update_fails
               /\ response' = error_response(403, "CROSS_TENANT_ACCESS")
               /\ UNCHANGED <<sessions, faults>>
       ELSE IF RoundAt(s, n) = {}
          THEN /\ ~update_fails
               /\ response' = error_response(404, "ROUND_NOT_FOUND")
               /\ UNCHANGED <<sessions, faults>>
       ELSE IF update_fails
          THEN /\ response' = error_response(500, "DATABASE_ERROR")
               /\ faults' = faults + 1
               /\ UNCHANGED sessions
       ELSE /\ sessions' = [sessions EXCEPT ![s].roundStartedAt = <<now>>,
                                            ![s].status = "active"]
            /\ response' = Resp(200, "OK", n)
            /\ UNCHANGED faults
    /\ UNCHANGED <<admins, tokens, nextAdmin, deleted,
                   tenants, rounds, participants, participations, answers,
                   inflight, nextId, nextAnswer, addOk, created, calc>>

SessionStatuses == {"draft", "active", "completed"}

\* body.status is one of the three statuses or an invalid value
UpdateSession(caller, s, status, update_fails) ==
    /\ update_fails => faults < MaxFaults
    /\ IF inline_admin_check(caller) # NoResponse
          THEN /\ ~update_fails
               /\ response' = inline_admin_check(caller)
               /\ UNCHANGED <<sessions, faults>>
       ELSE IF s \notin DOMAIN sessions
          THEN /\ ~update_fails
               /\ response' = error_response(404, "SESSION_NOT_FOUND")
               /\ UNCHANGED <<sessions, faults>>
       ELSE IF SessionAccessDenied(caller, s)
          THEN /\ ~update_fails
               /\ response' = error_response(403, "CROSS_TENANT_ACCESS")
               /\ UNCHANGED <<sessions, faults>>
       ELSE IF status \notin SessionStatuses
          THEN /\ ~update_fails
               /\ response' = error_response(400, "INVALID_STATUS")
               /\ UNCHANGED <<sessions, faults>>
       ELSE IF update_fails
          THEN /\ response' = error_response(500, "DATABASE_ERROR")
               /\ faults' = faults + 1
               /\ UNCHANGED sessions
       ELSE /\ sessions' = [sessions EXCEPT ![s].status = status]
            /\ response' = Resp(200, "OK", 0)
            /\ UNCHANGED faults
    /\ UNCHANGED <<admins, tokens, nextAdmin, deleted,
                   tenants, rounds, participants, participations, answers,
                   inflight, nextId, nextAnswer, addOk, created, calc>>

----------------------------------------------------------------------------
(* reset_points and clear_participants *)

AnswersOf(s) == {a \in answers : a.sessionId = s}

ParticipationIdsOf(s) ==
    {participations[i].participationId :
        i \in {j \in DOMAIN participations : participations[j].sessionId = s}}

\* reset_points names tenant_context at line 79 without ever binding it: for a
\* session with a tenantId the NameError reaches the catch-all and the handler
\* answers 500 INTERNAL_ERROR.  kept is the set of answers whose delete raises
\* (all of them when the query raises: the handler then deletes nothing).
ResetPoints(caller, s, kept) ==
    /\ kept # {} => faults < MaxFaults
    /\ IF inline_admin_check(caller) # NoResponse
          THEN /\ kept = {}
               /\ response' = inline_admin_check(caller)
               /\ UNCHANGED answers
       ELSE IF s \notin DOMAIN sessions
          THEN /\ kept = {}
               /\ response' = error_response(404, "SESSION_NOT_FOUND")
               /\ UNCHANGED answers
       ELSE IF sessions[s].tenantId # None
          THEN /\ kept = {}
               /\ response' = error_response(500, "INTERNAL_ERROR")
               /\ UNCHANGED answers
       ELSE /\ kept \subseteq AnswersOf(s)
            /\ answers' = (answers \ AnswersOf(s)) \cup kept
            /\ response' = Resp(200, "OK", Cardinality(AnswersOf(s) \ kept))
    /\ faults' = IF kept = {} THEN faults ELSE faults + 1
    /\ UNCHANGED <<admins, tokens, nextAdmin, deleted,
                   tenants, sessions, rounds, participants, participations,
                   inflight, nextId, nextAnswer, addOk, created, calc>>

\* kept_answers and kept_rows are the answers and the participation ids whose
\* delete raises
ClearParticipants(caller, s, kept_answers, kept_rows) ==
    /\ (kept_answers # {} \/ kept_rows # {}) => faults < MaxFaults
    /\ IF inline_admin_check(caller) # NoResponse
          THEN /\ kept_answers = {} /\ kept_rows = {}
               /\ response' = inline_admin_check(caller)
               /\ UNCHANGED <<answers, participations>>
       ELSE IF s \notin DOMAIN sessions
          THEN /\ kept_answers = {} /\ kept_rows = {}
               /\ response' = error_response(404, "SESSION_NOT_FOUND")
               /\ UNCHANGED <<answers, participations>>
       ELSE IF SessionAccessDenied(caller, s)
          THEN /\ kept_answers = {} /\ kept_rows = {}
               /\ response' = error_response(403, "CROSS_TENANT_ACCESS")
               /\ UNCHANGED <<answers, participations>>
       ELSE /\ kept_answers \subseteq AnswersOf(s)
            /\ kept_rows \subseteq ParticipationIdsOf(s)
            /\ answers' = (answers \ AnswersOf(s)) \cup kept_answers
            /\ participations' =
                   SelectRows(participations,
                       {participations[i].participationId : i \in DOMAIN participations}
                           \ (ParticipationIdsOf(s) \ kept_rows))
            /\ response' = Resp(200, "OK",
                               Cardinality(ParticipationIdsOf(s) \ kept_rows))
    /\ faults' = IF kept_answers = {} /\ kept_rows = {} THEN faults ELSE faults + 1
    /\ UNCHANGED <<admins, tokens, nextAdmin, deleted,
                   tenants, sessions, rounds, participants,
                   inflight, nextId, nextAnswer, addOk, created, calc>>

----------------------------------------------------------------------------
(* delete_round *)

DeleteRoundFaults == {"none", "get", "round_get", "delete", "update"}

\* The handler calls the tables without a try block of its own: whatever
\* raises is answered 500 by the outer handler.  For a session with a
\* tenantId the tenant check reads tenant_context, a name the handler never
\* binds.  The session's roundCount is set to the number of remaining rounds.
DeleteRound(caller, s, n, fault) ==
    LET refuse(resp) == /\ response' = resp
                        /\ UNCHANGED <<sessions, rounds>>
    IN
    /\ fault # "none" => faults < MaxFaults
    /\ IF inline_admin_check(caller) # NoResponse
          THEN fault = "none" /\ refuse(inline_admin_check(caller))
       ELSE IF fault = "get" THEN refuse(error_response(500, "INTERNAL_ERROR"))
       ELSE IF s \notin DOMAIN sessions
          THEN fault = "none" /\ refuse(error_response(404, "SESSION_NOT_FOUND"))
       ELSE IF sessions[s].tenantId # None
          THEN fault = "none" /\ refuse(error_response(500, "INTERNAL_ERROR"))
       ELSE IF fault = "round_get" THEN refuse(error_response(500, "INTERNAL_ERROR"))
       ELSE IF RoundAt(s, n) = {}
          THEN fault = "none" /\ refuse(error_response(404, "ROUND_NOT_FOUND"))
       ELSE IF fault = "delete" THEN refuse(error_response(500, "INTERNAL_ERROR"))
       ELSE /\ rounds' = rounds \ RoundAt(s, n)
            /\ IF fault = "update"
                  THEN /\ response' = error_response(500, "INTERNAL_ERROR")
                       /\ UNCHANGED sessions
                  ELSE /\ sessions' = [sessions EXCEPT ![s].roundCount =
                                           Cardinality(RoundsOf(s) \ RoundAt(s, n))]
                       /\ response' = Resp(200, "OK", 0)
    /\ faults' = IF fault = "none" THEN faults ELSE faults + 1
    /\ UNCHANGED <<admins, tokens, nextAdmin, deleted, tenants, participants,
                   participations, answers, inflight, nextId, nextAnswer, addOk,
                   created, calc>>

----------------------------------------------------------------------------
(* list_sessions *)

\* The ids handed out so far, the newest first
RECURSIVE NewestFirst(_)
NewestFirst(n) == IF n = 0 THEN <<>> ELSE <<SessionOrder[n]>> \o NewestFirst(n - 1)

\* A public endpoint: the handler reads no token.  It scans the whole table
\* and sorts by createdAt, newest first; calc keeps the ids of the sessions
\* of the response body.
ListSessions(caller, scan_fails) ==
    /\ scan_fails => faults < MaxFaults
    /\ IF scan_fails
          THEN /\ response' = error_response(500, "DATABASE_ERROR")
               /\ calc' = <<>>
          ELSE /\ response' = Resp(200, "OK", Cardinality(DOMAIN sessions))
               /\ calc' = [listing |-> SelectSeq(NewestFirst(created),
                                                 LAMBDA s : s \in DOMAIN sessions)]
    /\ faults' = IF scan_fails THEN faults + 1 ELSE faults
    /\ UNCHANGED <<admins, tokens, nextAdmin, deleted, tenants, sessions, rounds,
                   participants, participations, answers, inflight, nextId,
                   nextAnswer, addOk, created>>

----------------------------------------------------------------------------
(* get_scoreboard *)

\* query(SessionIndex): the rows of the session in the order of the index
QueryBySession(s) == SelectSeq(participations, LAMBDA row : row.sessionId = s)

\* The entry appended for a row; lost holds the participants whose profile
\* lookup raises or finds nothing
ScoreboardEntry(row, lost) ==
    [participantId |-> row.participantId,
     name |-> IF row.participantId \in lost
                 \/ row.participantId \notin DOMAIN participants
                 THEN "Unknown"
                 ELSE participants[row.participantId].name,
     totalPoints |-> row.totalPoints,
     correctAnswers |-> row.correctAnswers]

\* The loop of lines 88-131: a row whose tenantId differs from that of a
\* session with a tenantId is skipped
RECURSIVE BuildScoreboard(_, _, _)
BuildScoreboard(rows, session_tenant_id, lost) ==
    IF rows = <<>> THEN <<>>
    ELSE IF session_tenant_id # None /\ Head(rows).tenantId # session_tenant_id
        THEN BuildScoreboard(Tail(rows), session_tenant_id, lost)
        ELSE <<ScoreboardEntry(Head(rows), lost)>>
                 \o BuildScoreboard(Tail(rows), session_tenant_id, lost)

\* A sort step that puts the entry in front of the entries with its points:
\* equal totals end up in reverse query order
InsertEntryBeforeEqual(entry, sorted) ==
    LET k == Cardinality({i \in DOMAIN sorted :
                             sorted[i].totalPoints > entry.totalPoints})
    IN SubSeq(sorted, 1, k) \o <<entry>> \o SubSeq(sorted, k + 1, Len(sorted))

\* One step of a stable sort by totalPoints, descending: the entry goes
\* behind every entry with at least its points
InsertEntry(entry, sorted) ==
    LET k == Cardinality({i \in DOMAIN sorted :
                             sorted[i].totalPoints >= entry.totalPoints})
    IN SubSeq(sorted, 1, k) \o <<entry>> \o SubSeq(sorted, k + 1, Len(sorted))

\* scoreboard.sort(key=totalPoints, reverse=True): list.sort is stable, also
\* with reverse=True
RECURSIVE SortByPoints(_)
SortByPoints(entries) ==
    IF entries = <<>> THEN <<>>
    ELSE InsertEntry(entries[Len(entries)],
                     SortByPoints(SubSeq(entries, 1, Len(entries) - 1)))

\* entry["rank"] = index + 1
AddRank(entries) ==
    [i \in DOMAIN entries |->
        [participantId |-> entries[i].participantId, name |-> entries[i].name,
         totalPoints |-> entries[i].totalPoints,
         correctAnswers |-> entries[i].correctAnswers, rank |-> i]]

\* A public endpoint.  calc keeps the entries in the order the loop built
\* them and the scoreboard of the response body.
GetScoreboard(s, get_fails, query_fails, lost) ==
    /\ (get_fails \/ query_fails \/ lost # {}) => faults < MaxFaults
    /\ ~(get_fails /\ (query_fails \/ lost # {}))
    /\ ~(query_fails /\ lost # {})
    /\ IF get_fails
          THEN /\ response' = error_response(500, "DATABASE_ERROR")
               /\ calc' = <<>>
       ELSE IF s \notin DOMAIN sessions
          THEN /\ ~query_fails /\ lost = {}
               /\ response' = error_response(404, "SESSION_NOT_FOUND")
               /\ calc' = <<>>
       ELSE LET rows == IF query_fails THEN <<>> ELSE QueryBySession(s)
                listed == BuildScoreboard(rows, sessions[s].tenantId, lost)
            IN /\ response' = Resp(200, "OK", Len(listed))
               /\ calc' = [sessionId |-> s, listed |-> listed,
                           scoreboard |-> AddRank(SortByPoints(listed))]
    /\ faults' = IF get_fails \/ query_fails \/ lost # {} THEN faults + 1 ELSE faults
    /\ UNCHANGED <<admins, tokens, nextAdmin, deleted,
                   tenants, sessions, rounds, participants, participations,
                   answers, inflight, nextId, nextAnswer, addOk, created>>

----------------------------------------------------------------------------
(* delete_global_participant and get_participants *)

DeleteFaults == {"none", "get", "query", "item", "delete"}

\* A participant deletes the own account.  The participations are deleted
\* first, one delete_item per row; kept holds the ids of the rows whose delete
\* raises.  A failed query of the rows and a failed delete of a row are logged
\* and the handler goes on to delete the participant.
DeleteGlobalParticipant(token, p, fault, kept) ==
    LET own == {participations[i].participationId :
                   i \in {j \in DOMAIN participations :
                             participations[j].participantId = p}}
        all == {participations[i].participationId : i \in DOMAIN participations}
        gone == IF fault = "query" THEN {} ELSE own \ kept
    IN
    /\ fault # "none" => faults < MaxFaults
    /\ (fault = "item") <=> (kept # {})
    /\ kept \subseteq own
    /\ IF extract_participant_from_token(token) # NoResponse
          THEN /\ fault = "none"
               /\ response' = extract_participant_from_token(token)
               /\ UNCHANGED <<participants, participations>>
       ELSE IF token.sub # p
          THEN /\ fault = "none"
               /\ response' = error_response(403, "UNAUTHORIZED_ACCESS")
               /\ UNCHANGED <<participants, participations>>
       ELSE IF fault = "get"
          THEN /\ response' = error_response(500, "DATABASE_ERROR")
               /\ UNCHANGED <<participants, participations>>
       ELSE IF p \notin DOMAIN participants
          THEN /\ fault = "none"
               /\ response' = error_response(404, "PARTICIPANT_NOT_FOUND")
               /\ UNCHANGED <<participants, participations>>
       ELSE /\ participations' = SelectRows(participations, all \ gone)
            /\ IF fault = "delete"
                  THEN /\ response' = error_response(500, "DATABASE_ERROR")
                       /\ UNCHANGED participants
                  ELSE /\ participants' = Del(participants, p)
                       /\ response' = Resp(200, "OK", Cardinality(gone))
    /\ faults' = IF fault = "none" THEN faults ELSE faults + 1
    /\ UNCHANGED <<admins, tokens, nextAdmin, deleted,
                   tenants, sessions, rounds, answers, inflight, nextId,
                   nextAnswer, addOk, created, calc>>

\* The entry get_participants builds from a row and its profile
CombinedEntry(row) ==
    [participantId |-> row.participantId,
     name |-> participants[row.participantId].name,
     totalPoints |-> row.totalPoints,
     correctAnswers |-> row.correctAnswers]

\* The join loop of get_participants: a row is skipped when the lookup of its
\* profile raises or finds nothing, and when the profile's tenantId differs
\* from that of a session with a tenantId
RECURSIVE CombineParticipants(_, _, _)
CombineParticipants(rows, session_tenant_id, lost) ==
    IF rows = <<>> THEN <<>>
    ELSE LET p == Head(rows).participantId
             rest == CombineParticipants(Tail(rows), session_tenant_id, lost)
         IN IF p \in lost \/ p \notin DOMAIN participants THEN rest
            ELSE IF session_tenant_id # None
                    /\ participants[p].tenantId # session_tenant_id THEN rest
            ELSE <<CombinedEntry(Head(rows))>> \o rest

\* An admin endpoint.  calc keeps the entries in the order the loop built
\* them and the sorted list of the response body.
GetParticipants(caller, s, get_fails, query_fails, lost) ==
    /\ (get_fails \/ query_fails \/ lost # {}) => faults < MaxFaults
    /\ ~(get_fails /\ (query_fails \/ lost # {}))
    /\ ~(query_fails /\ lost # {})
    /\ IF inline_admin_check(caller) # NoResponse
          THEN /\ ~get_fails /\ ~query_fails /\ lost = {}
               /\ response' = inline_admin_check(caller)
               /\ calc' = <<>>
       ELSE IF get_fails
          THEN /\ response' = error_response(500, "DATABASE_ERROR")
               /\ calc' = <<>>
       ELSE IF s \notin DOMAIN sessions
          THEN /\ ~query_fails /\ lost = {}
               /\ response' = error_response(404, "SESSION_NOT_FOUND")
               /\ calc' = <<>>
       ELSE IF /\ caller.tenantId # None /\ sessions[s].tenantId # None
               /\ caller.tenantId # sessions[s].tenantId
          THEN /\ ~query_fails /\ lost = {}
               /\ response' = error_response(403, "CROSS_TENANT_ACCESS")
               /\ calc' = <<>>
       ELSE IF query_fails
          THEN /\ response' = error_response(500, "DATABASE_ERROR")
               /\ calc' = <<>>
       ELSE LET listed == CombineParticipants(QueryBySession(s),
                                              sessions[s].tenantId, lost)
            IN /\ response' = Resp(200, "OK", Len(listed))
               /\ calc' = [sessionId |-> s, listed |-> listed,
                           participants |-> SortByPoints(listed)]
    /\ faults' = IF get_fails \/ query_fails \/ lost # {} THEN faults + 1 ELSE faults
    /\ UNCHANGED <<admins, tokens, nextAdmin, deleted,
                   tenants, sessions, rounds, participants, participations,
                   answers, inflight, nextId, nextAnswer, addOk, created>>

----------------------------------------------------------------------------
(* Delete Quiz Session *)

\* The handler accepts the role admin only
DeleteCallers == AdminCallers \cup {[role |-> "admin", tenantId |-> None],
                                    [role |-> None, tenantId |-> None]}

DeleteSessionFaults == {"none", "get", "query", "s3", "delete"}

\* A count that takes every audio round for deleted, whatever delete_object did
AttemptedFiles(found, failed_files) ==
    Cardinality({r \in found : r.audioKey})

\* The loop over the rounds with an audioKey: deleted_files is incremented
\* after delete_object returned, a ClientError is logged and skipped
DeletedFiles(found, failed_files) ==
    Cardinality({r \in found : r.audioKey /\ r.roundNumber \notin failed_files})

\* The loop over the rounds: deleted_rounds counts the delete_item calls that
\* returned, the rows of the others stay
KeptRounds(found, kept_rounds) == {r \in found : r.roundNumber \in kept_rounds}

\* failed_files are the rounds whose delete_object raises ClientError,
\* kept_rounds those whose delete_item raises; fault "s3" is a delete_object
\* that raises another exception, which only the outer handler catches.
\* calc keeps the two counts of the response body.
DeleteSession(caller, s, fault, failed_files, kept_rounds) ==
    LET faulty == fault # "none" \/ failed_files # {} \/ kept_rounds # {}
        found == IF fault = "query" THEN {} ELSE RoundsOf(s)
        refuse(resp) == /\ ~faulty
                        /\ response' = resp
                        /\ calc' = <<>>
                        /\ UNCHANGED <<sessions, rounds>>
    IN
    /\ faulty => faults < MaxFaults
    /\ IF caller.role = None THEN refuse(error_response(401, "MISSING_TOKEN"))
       ELSE IF caller.role # "admin"
          THEN refuse(error_response(403, "INSUFFICIENT_PERMISSIONS"))
       ELSE IF fault = "get"
          THEN /\ failed_files = {} /\ kept_rounds = {}
               /\ response' = error_response(500, "DATABASE_ERROR")
               /\ calc' = <<>>
               /\ UNCHANGED <<sessions, rounds>>
       ELSE IF s \notin DOMAIN sessions
          THEN refuse(error_response(404, "SESSION_NOT_FOUND"))
       ELSE /\ failed_files \subseteq {r.roundNumber : r \in {x \in found : x.audioKey}}
            /\ kept_rounds \subseteq {r.roundNumber : r \in found}
            /\ IF fault = "s3"
                  THEN /\ kept_rounds = {}
                       /\ \E r \in found : r.audioKey
                       /\ response' = error_response(500, "INTERNAL_ERROR")
                       /\ calc' = <<>>
                       /\ UNCHANGED <<sessions, rounds>>
                  ELSE /\ rounds' = (rounds \ found) \cup KeptRounds(found, kept_rounds)
                       /\ IF fault = "delete"
                             THEN /\ response' = error_response(500, "DATABASE_ERROR")
                                  /\ calc' = <<>>
                                  /\ UNCHANGED sessions
                             ELSE /\ sessions' = Del(sessions, s)
                                  /\ response' = Resp(200, "OK", 0)
                                  /\ calc' =
                                       [sessionId |-> s,
                                        deletedRounds |->
                                            Cardinality(found \ KeptRounds(found, kept_rounds)),
                                        deletedAudioFiles |->
                                            DeletedFiles(found, failed_files)]
    /\ faults' = IF faulty THEN faults + 1 ELSE faults
    /\ UNCHANGED <<admins, tokens, nextAdmin, deleted,
                   tenants, participants, participations, answers, inflight,
                   nextId, nextAnswer, addOk, created>>

----------------------------------------------------------------------------
(* Admin accounts and bearer tokens *)

Usernames == {"alice", "bob"}
Passwords == {"pw1", "pw2"}

\* auth.hash_password and auth.verify_password (PBKDF2-SHA256); a row
\* without passwordHash carries <<>>
hash_password(password) == <<"pbkdf2_sha256", password>>

verify_password(password, password_hash) == password_hash = hash_password(password)

\* The row create_tenant_admin stores
AdminRow(username, password, tenant_id) ==
    [username |-> username, passwordHash |-> hash_password(password),
     role |-> "tenant_admin", tenantId |-> tenant_id]

\* auth.generate_token: the payload of the signed token
generate_token(user_id, role, tenant_id) ==
    [sub |-> user_id, role |-> role, tenantId |-> tenant_id]

\* The rows of the UsernameIndex with the given username
QueryByUsername(username) ==
    {a \in DOMAIN admins : admins[a].username = username}

\* One tenant admin of t1 has been created, nobody has logged in
SeedAccounts ==
    /\ admins = (1 :> AdminRow("alice", "pw1", "t1"))
    /\ tokens = {}
    /\ nextAdmin = 2
    /\ deleted = {}

----------------------------------------------------------------------------
(* Tenants: create_tenant, update_tenant, delete_tenant *)

\* uuid4 for a new tenant: an id no row carries
CreateTenant(put_fails) ==
    /\ put_fails => faults < MaxFaults
    /\ \E t \in TenantIds :
          /\ tenants[t] = None
          /\ IF put_fails
                THEN /\ response' = error_response(500, "DATABASE_ERROR")
                     /\ UNCHANGED tenants
                ELSE /\ tenants' = [tenants EXCEPT ![t] = "active"]
                     /\ response' = Resp(201, "OK", 0)
    /\ faults' = IF put_fails THEN faults + 1 ELSE faults
    /\ UNCHANGED <<admins, tokens, nextAdmin, deleted, sessions, rounds,
                   participants, participations, answers, inflight, nextId,
                   nextAnswer, addOk, created, calc>>

TenantStatuses == {"active", "inactive"}

\* status is the value of the body's status field
UpdateTenant(tenant_id, status, get_fails, update_fails) ==
    /\ (get_fails \/ update_fails) => faults < MaxFaults
    /\ ~(get_fails /\ update_fails)
    /\ IF get_fails
          THEN /\ response' = error_response(500, "DATABASE_ERROR")
               /\ UNCHANGED tenants
       ELSE IF tenants[tenant_id] = None
          THEN /\ ~update_fails
               /\ response' = error_response(404, "TENANT_NOT_FOUND")
               /\ UNCHANGED tenants
       ELSE IF status \notin TenantStatuses
          THEN /\ ~update_fails
               /\ response' = error_response(400, "INVALID_FIELD_VALUE")
               /\ UNCHANGED tenants
       ELSE IF update_fails
          THEN /\ response' = error_response(500, "DATABASE_ERROR")
               /\ UNCHANGED tenants
       ELSE /\ tenants' = [tenants EXCEPT ![tenant_id] = status]
            /\ response' = Resp(200, "OK", 0)
    /\ faults' = IF get_fails \/ update_fails THEN faults + 1 ELSE faults
    /\ UNCHANGED <<admins, tokens, nextAdmin, deleted, sessions, rounds,
                   participants, participations, answers, inflight, nextId,
                   nextAnswer, addOk, created, calc>>

\* A delete that removes the row of the tenant
DeleteTenantHard(tenant_id, get_fails, update_fails) ==
    /\ ~get_fails /\ ~update_fails
    /\ tenants[tenant_id] # None
    /\ tenants' = [tenants EXCEPT ![tenant_id] = None]
    /\ response' = Resp(200, "OK", 0)
    /\ UNCHANGED <<admins, tokens, nextAdmin, deleted, sessions, rounds,
                   participants, participations, answers, inflight, nextId,
                   nextAnswer, faults, addOk, created, calc>>

\* The soft delete: SET status = inactive on the row.  The 200 response
\* carries the message "Tenant successfully deleted".
DeleteTenant(tenant_id, get_fails, update_fails) ==
    /\ (get_fails \/ update_fails) => faults < MaxFaults
    /\ ~(get_fails /\ update_fails)
    /\ IF get_fails
          THEN /\ response' = error_response(500, "DATABASE_ERROR")
               /\ UNCHANGED tenants
       ELSE IF tenants[tenant_id] = None
          THEN /\ ~update_fails
               /\ response' = error_response(404, "TENANT_NOT_FOUND")
               /\ UNCHANGED tenants
       ELSE IF update_fails
          THEN /\ response' = error_response(500, "DATABASE_ERROR")
               /\ UNCHANGED tenants
       ELSE /\ tenants' = [tenants EXCEPT ![tenant_id] = "inactive"]
            /\ response' = Resp(200, "TENANT_DELETED", 0)
    /\ faults' = IF get_fails \/ update_fails THEN faults + 1 ELSE faults
    /\ UNCHANGED <<admins, tokens, nextAdmin, deleted, sessions, rounds,
                   participants, participations, answers, inflight, nextId,
                   nextAnswer, addOk, created, calc>>

----------------------------------------------------------------------------
(* register_global_participant *)

Names == {"Ann", "Ben"}

\* uuid4 for a new participant: any id no row carries
RegisterGlobalParticipant(tenant_id, name, get_fails, put_fails) ==
    /\ (get_fails \/ put_fails) => faults < MaxFaults
    /\ ~(get_fails /\ put_fails)
    /\ IF get_fails
          THEN /\ response' = error_response(500, "DATABASE_ERROR")
               /\ UNCHANGED participants
       ELSE IF tenants[tenant_id] = None
          THEN /\ ~put_fails
               /\ response' = error_response(404, "TENANT_NOT_FOUND")
               /\ UNCHANGED participants
       ELSE IF tenants[tenant_id] # "active"
          THEN /\ ~put_fails
               /\ response' = error_response(403, "TENANT_INACTIVE")
               /\ UNCHANGED participants
       ELSE IF put_fails
          THEN /\ response' = error_response(500, "DATABASE_ERROR")
               /\ UNCHANGED participants
       ELSE /\ \E p \in ParticipantIds \ DOMAIN participants :
                  participants' = Put(participants, p,
                                      [tenantId |-> tenant_id, name |-> name])
            /\ response' = Resp(201, "OK", 0)
    /\ faults' = IF get_fails \/ put_fails THEN faults + 1 ELSE faults
    /\ UNCHANGED <<admins, tokens, nextAdmin, deleted, tenants, sessions, rounds,
                   participations, answers, inflight, nextId, nextAnswer, addOk,
                   created, calc>>

----------------------------------------------------------------------------
(* update_global_participant *)

\* The parameters db.scan declares
ScanParameters ==
    {"table_name", "filter_expression", "expression_attribute_values"}

\* The arguments the handler passes to db.scan for the nickname check
NicknameScanArguments ==
    {"table_name", "filter_expression", "expression_attribute_values",
     "expression_attribute_names"}

\* A call of db.scan: an argument the function does not declare raises
\* TypeError before the table is read, a store fault raises in the read
scan(arguments, scan_fails) ==
    IF ~(arguments \subseteq ScanParameters) THEN "TypeError"
    ELSE IF scan_fails THEN "ClientError"
    ELSE "ok"

\* str.strip on the names of the universe
strip(name) == IF name = "Ben " THEN "Ben" ELSE name

ProfileNames == Names \cup {"Ben "}

\* The rows the nickname filter matches: same tenant, the stripped name,
\* another participantId
existing_participants(tenant_id, name, participant_id) ==
    {q \in DOMAIN participants :
        /\ participants[q].tenantId = tenant_id
        /\ participants[q].name = strip(name)
        /\ q # participant_id}

ProfileTokens ==
    [role : {"participant"}, sub : ParticipantIds, tenantId : TenantIds]

\* name is None when the body carries only an avatar
UpdateGlobalParticipant(token, p, name, get_fails, scan_fails, update_fails) ==
    /\ (get_fails \/ scan_fails \/ update_fails) => faults < MaxFaults
    /\ ~(get_fails /\ scan_fails) /\ ~(get_fails /\ update_fails)
    /\ ~(scan_fails /\ update_fails)
    /\ IF require_participant_auth(token, get_fails) # NoResponse
          THEN /\ ~scan_fails /\ ~update_fails
               /\ response' = require_participant_auth(token, get_fails)
               /\ UNCHANGED participants
       ELSE IF token.sub # p
          THEN /\ ~scan_fails /\ ~update_fails
               /\ response' = error_response(403, "INSUFFICIENT_PERMISSIONS")
               /\ UNCHANGED participants
       ELSE IF /\ name # None
               /\ name # participants[p].name
               /\ scan(NicknameScanArguments, scan_fails) = "ok"
               /\ existing_participants(participants[p].tenantId, name, p) # {}
          THEN /\ ~update_fails
               /\ response' = error_response(409, "NICKNAME_TAKEN")
               /\ UNCHANGED participants
       ELSE IF update_fails
          THEN /\ response' = error_response(500, "DATABASE_ERROR")
               /\ UNCHANGED participants
       ELSE /\ participants' =
                  IF name = None THEN participants
                  ELSE [participants EXCEPT ![p].name = name]
            /\ response' = Resp(200, "OK", 0)
    /\ faults' = IF get_fails \/ scan_fails \/ update_fails
                    THEN faults + 1 ELSE faults
    /\ UNCHANGED <<admins, tokens, nextAdmin, deleted, tenants, sessions, rounds,
                   participations, answers, inflight, nextId, nextAnswer, addOk,
                   created, calc>>

----------------------------------------------------------------------------
(* Admins: admin_login, create_tenant_admin, update_tenant_admin,
   delete_tenant_admin *)

MaxAdmins == 2

\* The history entry of an admin row
Credentials(a) ==
    [adminId |-> a, username |-> admins[a].username,
     passwordHash |-> admins[a].passwordHash]

\* The history once an admin has been given the username
Regiven(username) == {d \in deleted : d.username # username}

\* picked is the row the handler takes as admins[0]: the index returns the
\* rows of one username in no defined order
AdminLogin(username, password, query_fails, picked) ==
    /\ query_fails => faults < MaxFaults
    /\ IF query_fails
          THEN /\ response' = error_response(500, "DATABASE_ERROR")
               /\ UNCHANGED tokens
       ELSE IF QueryByUsername(username) = {}
          THEN /\ response' = error_response(401, "INVALID_CREDENTIALS")
               /\ UNCHANGED tokens
       ELSE /\ picked \in QueryByUsername(username)
            /\ IF admins[picked].passwordHash = <<>>
                  THEN /\ response' = error_response(500, "INVALID_ADMIN_DATA")
                       /\ UNCHANGED tokens
               ELSE IF ~verify_password(password, admins[picked].passwordHash)
                  THEN /\ response' = error_response(401, "INVALID_CREDENTIALS")
                       /\ UNCHANGED tokens
               ELSE /\ tokens' = tokens \cup
                           {generate_token(picked,
                                           IF admins[picked].role = None
                                              THEN "tenant_admin"
                                              ELSE admins[picked].role,
                                           admins[picked].tenantId)}
                    /\ response' = Resp(200, "OK", picked)
    /\ faults' = IF query_fails THEN faults + 1 ELSE faults
    /\ UNCHANGED <<admins, nextAdmin, deleted, tenants, sessions, rounds,
                   participants, participations, answers, inflight, nextId,
                   nextAnswer, addOk, created, calc>>

CreateAdminFaults == {"none", "get", "query"}

\* create_tenant_admin up to the query of the UsernameIndex
CreateTenantAdminStart(w, tenant_id, username, password, fault) ==
    LET refuse(resp) == response' = resp /\ UNCHANGED inflight
    IN
    /\ inflight[w] = Idle
    /\ fault # "none" => faults < MaxFaults
    /\ IF fault = "get" THEN refuse(error_response(500, "DATABASE_ERROR"))
       ELSE IF tenants[tenant_id] = None
          THEN fault = "none" /\ refuse(error_response(404, "TENANT_NOT_FOUND"))
       ELSE IF tenants[tenant_id] # "active"
          THEN fault = "none" /\ refuse(error_response(400, "TENANT_INACTIVE"))
       ELSE IF fault = "query" THEN refuse(error_response(500, "DATABASE_ERROR"))
       ELSE IF QueryByUsername(username) # {}
          THEN refuse(error_response(409, "DUPLICATE_USERNAME"))
       ELSE /\ inflight' = [inflight EXCEPT ![w] =
                               [op |-> "create_admin", tenantId |-> tenant_id,
                                username |-> username, password |-> password]]
            /\ UNCHANGED response
    /\ faults' = IF fault = "none" THEN faults ELSE faults + 1
    /\ UNCHANGED <<admins, tokens, nextAdmin, deleted, tenants, sessions, rounds,
                   participants, participations, answers, nextId, nextAnswer,
                   addOk, created, calc>>

\* create_tenant_admin from uuid4 to the response: put_item carries no condition
CreateTenantAdminPut(w, put_fails) ==
    /\ inflight[w].op = "create_admin"
    /\ IF put_fails
          THEN /\ faults < MaxFaults
               /\ faults' = faults + 1
               /\ response' = error_response(500, "DATABASE_ERROR")
               /\ UNCHANGED <<admins, nextAdmin, deleted>>
          ELSE /\ nextAdmin <= MaxAdmins
               /\ admins' = Put(admins, nextAdmin,
                                AdminRow(inflight[w].username, inflight[w].password,
                                         inflight[w].tenantId))
               /\ nextAdmin' = nextAdmin + 1
               /\ deleted' = Regiven(inflight[w].username)
               /\ response' = Resp(201, "OK", nextAdmin)
               /\ UNCHANGED faults
    /\ inflight' = [inflight EXCEPT ![w] = Idle]
    /\ UNCHANGED <<tokens, tenants, sessions, rounds, participants, participations,
                   answers, nextId, nextAnswer, addOk, created, calc>>

UpdateAdminFaults == {"none", "get", "query", "tenant_get"}

\* update_tenant_admin up to the update expression; new_username and
\* new_tenant_id are None when the body leaves the field out
UpdateTenantAdminStart(w, admin_id, new_username, new_tenant_id, fault) ==
    LET refuse(resp) == response' = resp /\ UNCHANGED inflight
        renames == new_username # None /\ new_username # admins[admin_id].username
        moves == new_tenant_id # None /\ new_tenant_id # admins[admin_id].tenantId
    IN
    /\ inflight[w] = Idle
    /\ fault # "none" => faults < MaxFaults
    /\ IF fault = "get" THEN refuse(error_response(500, "DATABASE_ERROR"))
       ELSE IF admin_id \notin DOMAIN admins
          THEN fault = "none" /\ refuse(error_response(404, "ADMIN_NOT_FOUND"))
       ELSE IF renames /\ fault = "query"
          THEN refuse(error_response(500, "DATABASE_ERROR"))
       ELSE IF renames /\ QueryByUsername(new_username) \ {admin_id} # {}
          THEN fault = "none" /\ refuse(error_response(409, "DUPLICATE_USERNAME"))
       ELSE IF moves /\ fault = "tenant_get"
          THEN refuse(error_response(500, "DATABASE_ERROR"))
       ELSE IF moves /\ tenants[new_tenant_id] = None
          THEN fault = "none"
               /\ refuse(error_response(400, "INVALID_TENANT_ASSIGNMENT"))
       ELSE IF moves /\ tenants[new_tenant_id] # "active"
          THEN fault = "none" /\ refuse(error_response(400, "TENANT_INACTIVE"))
       ELSE IF ~renames /\ ~moves
          THEN fault = "none" /\ refuse(Resp(200, "OK", admin_id))
       ELSE /\ fault = "none"
            /\ inflight' = [inflight EXCEPT ![w] =
                               [op |-> "update_admin", adminId |-> admin_id,
                                username |-> IF renames THEN new_username ELSE None,
                                tenantId |-> IF moves THEN new_tenant_id ELSE None]]
            /\ UNCHANGED response
    /\ faults' = IF fault = "none" THEN faults ELSE faults + 1
    /\ UNCHANGED <<admins, tokens, nextAdmin, deleted, tenants, sessions, rounds,
                   participants, participations, answers, nextId, nextAnswer,
                   addOk, created, calc>>

\* The row update_item leaves: SET on the named attributes, and a new row
\* with only these attributes when the key is not in the table
UpsertAdmin(admin_id, username, tenant_id) ==
    LET old == IF admin_id \in DOMAIN admins THEN admins[admin_id]
               ELSE [username |-> None, passwordHash |-> <<>>, role |-> None,
                     tenantId |-> None]
    IN [old EXCEPT !.username = IF username = None THEN @ ELSE username,
                   !.tenantId = IF tenant_id = None THEN @ ELSE tenant_id]

\* update_tenant_admin from update_item to the response
UpdateTenantAdminWrite(w, update_fails) ==
    /\ inflight[w].op = "update_admin"
    /\ IF update_fails
          THEN /\ faults < MaxFaults
               /\ faults' = faults + 1
               /\ response' = error_response(500, "DATABASE_ERROR")
               /\ UNCHANGED <<admins, deleted>>
          ELSE /\ admins' = Put(admins, inflight[w].adminId,
                                UpsertAdmin(inflight[w].adminId, inflight[w].username,
                                            inflight[w].tenantId))
               /\ deleted' = IF inflight[w].username = None THEN deleted
                             ELSE Regiven(inflight[w].username)
               /\ response' = Resp(200, "OK", inflight[w].adminId)
               /\ UNCHANGED faults
    /\ inflight' = [inflight EXCEPT ![w] = Idle]
    /\ UNCHANGED <<tokens, nextAdmin, tenants, sessions, rounds, participants,
                   participations, answers, nextId, nextAnswer, addOk, created, calc>>

DeleteTenantAdmin(admin_id, get_fails, delete_fails) ==
    /\ (get_fails \/ delete_fails) => faults < MaxFaults
    /\ ~(get_fails /\ delete_fails)
    /\ IF get_fails
          THEN /\ response' = error_response(500, "DATABASE_ERROR")
               /\ UNCHANGED <<admins, deleted>>
       ELSE IF admin_id \notin DOMAIN admins
          THEN /\ ~delete_fails
               /\ response' = error_response(404, "ADMIN_NOT_FOUND")
               /\ UNCHANGED <<admins, deleted>>
       ELSE IF delete_fails
          THEN /\ response' = error_response(500, "DATABASE_ERROR")
               /\ UNCHANGED <<admins, deleted>>
       ELSE /\ admins' = Del(admins, admin_id)
            /\ deleted' = deleted \cup {Credentials(admin_id)}
            /\ response' = Resp(200, "OK", admin_id)
    /\ faults' = IF get_fails \/ delete_fails THEN faults + 1 ELSE faults
    /\ UNCHANGED <<tokens, nextAdmin, tenants, sessions, rounds, participants,
                   participations, answers, inflight, nextId, nextAnswer, addOk,
                   created, calc>>

----------------------------------------------------------------------------
(* Round management, from an empty sessions table *)

EmptyStore ==
    /\ tenants = [t \in TenantIds |-> "active"]
    /\ sessions = EmptyTable
    /\ rounds = {}
    /\ participants = EmptyTable
    /\ participations = <<>>
    /\ answers = {}
    /\ inflight = [w \in Workers |-> Idle]
    /\ response = NoResponse
    /\ nextId = 1
    /\ nextAnswer = 1
    /\ faults = 0
    /\ addOk = [s \in SessionIds |-> 0]
    /\ created = 0
    /\ calc = <<>>
    /\ SeedAccounts

CapBodies == {[audioKey |-> TRUE, correctAnswer |-> 2]}

InitRounds == EmptyStore

NextRounds ==
    \/ \E caller \in AdminCallers, put_fails \in BOOLEAN :
           CreateQuiz(caller, "audio", put_fails)
    \/ \E caller \in AdminCallers, s \in SessionIds, body \in CapBodies,
          put_fails \in BOOLEAN, update_fails \in BOOLEAN :
           AddRound(caller, s, body, put_fails, update_fails)
    \/ \E caller \in AnyCallers, s \in SessionIds, query_fails \in BOOLEAN :
           GetQuiz(caller, s, query_fails)

SpecRounds == InitRounds /\ [][NextRounds]_vars

----------------------------------------------------------------------------
(* Playing a quiz *)

StartTimes == {100}

\* The store once a tenant admin of t1 has created s1, a legacy admin (token
\* without tenantId) has created s2, each session has got one round and has
\* had it started, and one participant has registered with each tenant
PlayTables ==
    /\ tenants = [t \in TenantIds |-> "active"]
    /\ \E now \in StartTimes :
          sessions = [s \in SessionIds |->
                         [SessionRow(IF s = "s1" THEN "t1" ELSE None, "audio")
                             EXCEPT !.roundCount = 1, !.status = "active",
                                    !.roundStartedAt = <<now>>]]
    /\ rounds = {RoundRow(s, 1, [audioKey |-> TRUE, correctAnswer |-> 2]) :
                    s \in SessionIds}
    /\ participants = [p \in ParticipantIds |->
                          [tenantId |-> IF p = "p1" THEN "t1" ELSE "t2",
                           name |-> p]]

\* No answer stored yet, no request under way
Quiet ==
    /\ answers = {}
    /\ inflight = [w \in Workers |-> Idle]
    /\ response = NoResponse
    /\ nextAnswer = 1
    /\ faults = 0
    /\ addOk = [s \in SessionIds |-> 1]
    /\ created = Len(SessionOrder)
    /\ SeedAccounts

PlayStore == PlayTables /\ Quiet /\ calc = <<>>

PlayAdmins == {[role |-> "tenant_admin", tenantId |-> t] : t \in TenantIds}

----------------------------------------------------------------------------
(* Joining: concurrent join requests against the play store *)

InitJoin ==
    /\ PlayStore
    /\ participations = <<>>
    /\ nextId = 1

NextJoin ==
    \/ \E w \in Workers :
          /\ FirstIdle(w)
          /\ \E token \in ParticipantCallers, s \in SessionIds,
                fault \in JoinFaults, as_decimal \in BOOLEAN :
                 JoinStart(w, token, s, fault, as_decimal)
    \/ \E w \in Workers :
          /\ inflight[w].op = "join"
          /\ \E put_fails \in BOOLEAN : JoinPut(w, put_fails)
    \/ \E caller \in PlayAdmins, s \in SessionIds :
          \E kept_rows \in SUBSET ParticipationIdsOf(s) :
             ClearParticipants(caller, s, {}, kept_rows)

SpecJoin == InitJoin /\ [][NextJoin]_vars

----------------------------------------------------------------------------
(* Scoring: concurrent answers once p1 has joined both sessions; p2 has
   joined none *)

JoinedRows ==
    <<ParticipationRow(1, "p1", "s1", "t1"),
      ParticipationRow(2, "p1", "s2", "t1")>>

Init ==
    /\ PlayStore
    /\ participations = JoinedRows
    /\ nextId = Len(JoinedRows) + 1

AnswerInputs == {1, 2}
SubmitTimes == {101}

\* The admin requests come from the tenant admin of t2: it is refused on s1
\* and, as s2 carries no tenantId, let through on s2
ScoreAdmins == {[role |-> "tenant_admin", tenantId |-> "t2"]}

Next ==
    \/ \E w \in Workers :
          /\ FirstIdle(w)
          /\ \E p \in ParticipantIds, s \in SessionIds, n \in {1, 2},
                answer \in AnswerInputs, now \in SubmitTimes, fault \in SubmitFaults :
                 SubmitStart(w, p, s, n, answer, now, fault)
    \/ \E w \in Workers :
          /\ inflight[w].op = "submit"
          /\ \E put_fails \in BOOLEAN, update_fails \in BOOLEAN :
                 /\ put_fails \/ nextAnswer <= MaxAnswers
                 /\ SubmitWrite(w, put_fails, update_fails)
    \/ \E caller \in ScoreAdmins, s \in SessionIds, now \in StartTimes,
          update_fails \in BOOLEAN :
           StartRound(caller, s, 1, now, update_fails)
    \/ \E caller \in ScoreAdmins, s \in SessionIds,
          status \in {"completed", "archived"}, update_fails \in BOOLEAN :
           UpdateSession(caller, s, status, update_fails)
    \/ \E caller \in ScoreAdmins, s \in SessionIds :
          \E kept \in SUBSET AnswersOf(s) :
             ResetPoints(caller, s, kept)

Spec == Init /\ [][Next]_vars

----------------------------------------------------------------------------
(* The points of one answer, on inputs drawn from bounded sets *)

MaxClock == 8
ClockReadings == 0..MaxClock
AnswerOptions == 0..3

\* The session's roundStartedAt: none recorded, or a clock reading
StartedAts == {<<>>} \cup {<<t>> : t \in ClockReadings}

InitPoints ==
    /\ PlayTables /\ Quiet
    /\ participations = JoinedRows
    /\ nextId = Len(JoinedRows) + 1
    /\ \E answer \in AnswerOptions, correct_answer \in AnswerOptions,
          started \in StartedAts, now \in ClockReadings, get_fails \in BOOLEAN :
           calc = [answer |-> answer, correct_answer |-> correct_answer,
                   started |-> started, now |-> now, get_fails |-> get_fails,
                   done |-> FALSE, points |-> 0]

\* Lines 149-176 of submit_answer applied to the drawn inputs
AwardPoints ==
    /\ ~calc.done
    /\ calc' = [calc EXCEPT !.done = TRUE,
                            !.points = CalcPoints(calc.answer, calc.correct_answer,
                                                  calc.started, calc.now,
                                                  calc.get_fails)]
    /\ UNCHANGED <<admins, tokens, nextAdmin, deleted,
                   tenants, sessions, rounds, participants, participations,
                   answers, inflight, response, nextId, nextAnswer, faults,
                   addOk, created>>

NextPoints == AwardPoints

SpecPoints == InitPoints /\ [][NextPoints]_vars

----------------------------------------------------------------------------
(* The scoreboard, on participation tables drawn from bounded sets *)

MaxRows == 3
ScoreValues == {0, 5, 20}

\* The (participant, session, tenant) triples join_session can store: p1 of
\* t1 in s1 and in s2, p2 of t2 in s2 (a join of p2 to s1 is refused)
JoinableRows ==
    {ParticipationRow(0, "p1", "s1", "t1"), ParticipationRow(0, "p1", "s2", "t1"),
     ParticipationRow(0, "p2", "s2", "t2")}

\* Up to MaxRows rows, more than one per pair included, with the totals that
\* answers have left on them
BoardTables ==
    UNION {[1..n -> JoinableRows \X ScoreValues] : n \in 0..MaxRows}

InitBoard ==
    /\ PlayTables /\ Quiet
    /\ \E table \in BoardTables :
          participations =
              [i \in DOMAIN table |->
                  [table[i][1] EXCEPT !.participationId = i,
                                      !.totalPoints = table[i][2]]]
    /\ nextId = Len(participations) + 1
    /\ calc = <<>>

NextBoard ==
    \E s \in SessionIds, get_fails \in BOOLEAN, query_fails \in BOOLEAN,
       lost \in SUBSET ParticipantIds :
        GetScoreboard(s, get_fails, query_fails, lost)

SpecBoard == InitBoard /\ [][NextBoard]_vars

----------------------------------------------------------------------------
(* The two participant listings, with participants deleting their accounts *)

\* Up to MaxRows rows that join_session can have stored, no answer given yet
InitList ==
    /\ PlayTables /\ Quiet
    /\ \E table \in UNION {[1..n -> JoinableRows] : n \in 0..MaxRows} :
          participations =
              [i \in DOMAIN table |-> [table[i] EXCEPT !.participationId = i]]
    /\ nextId = Len(participations) + 1
    /\ calc = <<>>

NextList ==
    \/ \E token \in ParticipantCallers, p \in ParticipantIds,
          fault \in DeleteFaults, kept \in SUBSET (1..MaxRows) :
           DeleteGlobalParticipant(token, p, fault, kept)
    \/ \E s \in SessionIds, get_fails \in BOOLEAN, query_fails \in BOOLEAN,
          lost \in SUBSET ParticipantIds :
           GetScoreboard(s, get_fails, query_fails, lost)
    \/ \E caller \in AdminCallers, s \in SessionIds, get_fails \in BOOLEAN,
          query_fails \in BOOLEAN, lost \in SUBSET ParticipantIds :
           GetParticipants(caller, s, get_fails, query_fails, lost)

SpecList == InitList /\ [][NextList]_vars

----------------------------------------------------------------------------
(* Deleting sessions that have rounds *)

MaxDelRounds == 2

\* s1 of tenant t1 is an audio quiz: each of its rounds has an audioKey.  s2
\* is a quiz without media type, whose rounds may carry an audioKey or not.
InitDelete ==
    /\ Quiet /\ calc = <<>>
    /\ tenants = [t \in TenantIds |-> "active"]
    /\ participants = EmptyTable /\ participations = <<>> /\ nextId = 1
    /\ \E n1 \in 0..MaxDelRounds, n2 \in 0..MaxDelRounds :
          \E audio \in [1..n2 -> BOOLEAN] :
            /\ sessions =
                   [s \in SessionIds |->
                       IF s = "s1"
                          THEN [SessionRow("t1", "audio") EXCEPT !.roundCount = n1]
                          ELSE [SessionRow(None, "none") EXCEPT !.roundCount = n2]]
            /\ rounds =
                   {RoundRow("s1", n, [audioKey |-> TRUE, correctAnswer |-> 2]) :
                       n \in 1..n1}
                   \cup {RoundRow("s2", n, [audioKey |-> audio[n], correctAnswer |-> 2]) :
                            n \in 1..n2}

NextDelete ==
    \E caller \in DeleteCallers, s \in SessionIds, fault \in DeleteSessionFaults,
       failed_files \in SUBSET (1..MaxDelRounds),
       kept_rounds \in SUBSET (1..MaxDelRounds) :
        DeleteSession(caller, s, fault, failed_files, kept_rounds)

SpecDelete == InitDelete /\ [][NextDelete]_vars

----------------------------------------------------------------------------
(* The life of a tenant: its admins, sessions and participants *)

\* Tenant t1 exists with one admin, t2 has not been created; no session, no
\* participant
InitTenants ==
    /\ tenants = [t \in TenantIds |-> IF t = "t1" THEN "active" ELSE None]
    /\ sessions = EmptyTable
    /\ rounds = {}
    /\ participants = EmptyTable
    /\ participations = <<>>
    /\ answers = {}
    /\ inflight = [w \in Workers |-> Idle]
    /\ response = NoResponse
    /\ nextId = 1
    /\ nextAnswer = 1
    /\ faults = 0
    /\ addOk = [s \in SessionIds |-> 0]
    /\ created = 0
    /\ calc = <<>>
    /\ SeedAccounts

NextTenants ==
    \/ \E put_fails \in BOOLEAN : CreateTenant(put_fails)
    \/ \E t \in TenantIds, status \in TenantStatuses \cup {"deleted"},
          get_fails \in BOOLEAN, update_fails \in BOOLEAN :
           UpdateTenant(t, status, get_fails, update_fails)
    \/ \E t \in TenantIds, get_fails \in BOOLEAN, update_fails \in BOOLEAN :
           DeleteTenant(t, get_fails, update_fails)
    \/ \E caller \in PlayAdmins, put_fails \in BOOLEAN :
           CreateQuiz(caller, "none", put_fails)
    \/ \E w \in Workers, t \in TenantIds, fault \in CreateAdminFaults :
           FirstIdle(w) /\ CreateTenantAdminStart(w, t, "bob", "pw2", fault)
    \/ \E w \in Workers, put_fails \in BOOLEAN : CreateTenantAdminPut(w, put_fails)
    \/ \E t \in TenantIds, get_fails \in BOOLEAN, put_fails \in BOOLEAN :
           RegisterGlobalParticipant(t, "Ann", get_fails, put_fails)

SpecTenants == InitTenants /\ [][NextTenants]_vars

----------------------------------------------------------------------------
(* Admin accounts: create, rename, delete, log in, and use the token *)

LoginPasswords == {"pw1", "bad"}

\* The seed admin alice of t1; both sessions are still to be created
InitAdmins ==
    /\ tenants = [t \in TenantIds |-> "active"]
    /\ sessions = EmptyTable
    /\ rounds = {}
    /\ participants = EmptyTable
    /\ participations = <<>>
    /\ answers = {}
    /\ inflight = [w \in Workers |-> Idle]
    /\ response = NoResponse
    /\ nextId = 1
    /\ nextAnswer = 1
    /\ faults = 0
    /\ addOk = [s \in SessionIds |-> 0]
    /\ created = 0
    /\ calc = <<>>
    /\ SeedAccounts

NextAdmins ==
    \/ \E username \in Usernames, password \in LoginPasswords,
          query_fails \in BOOLEAN, picked \in 1..MaxAdmins :
           AdminLogin(username, password, query_fails, picked)
    \/ \E w \in Workers, username \in Usernames, fault \in CreateAdminFaults :
           FirstIdle(w) /\ CreateTenantAdminStart(w, "t1", username, "pw1", fault)
    \/ \E w \in Workers, put_fails \in BOOLEAN : CreateTenantAdminPut(w, put_fails)
    \/ \E w \in Workers, a \in 1..MaxAdmins, new_username \in Usernames,
          fault \in UpdateAdminFaults :
           FirstIdle(w) /\ UpdateTenantAdminStart(w, a, new_username, None, fault)
    \/ \E w \in Workers, update_fails \in BOOLEAN :
           UpdateTenantAdminWrite(w, update_fails)
    \/ \E a \in 1..MaxAdmins, get_fails \in BOOLEAN, delete_fails \in BOOLEAN :
           DeleteTenantAdmin(a, get_fails, delete_fails)
    \/ \E token \in tokens : CreateQuiz(token, "none", FALSE)

SpecAdmins == InitAdmins /\ [][NextAdmins]_vars

----------------------------------------------------------------------------
(* The life of a session: created, edited, played, reset *)

MaxSessionRounds == 2

\* A tenant admin of each tenant and an admin whose token has no tenantId
SessionAdmins == PlayAdmins \cup {[role |-> "tenant_admin", tenantId |-> None]}

InitSessions == EmptyStore

NextSessions ==
    \/ \E caller \in SessionAdmins, put_fails \in BOOLEAN :
           CreateQuiz(caller, "none", put_fails)
    \/ \E caller \in SessionAdmins, s \in SessionIds, put_fails \in BOOLEAN,
          update_fails \in BOOLEAN :
           /\ addOk[s] < MaxSessionRounds
           /\ AddRound(caller, s, [audioKey |-> FALSE, correctAnswer |-> 2],
                       put_fails, update_fails)
    \/ \E caller \in SessionAdmins, s \in SessionIds, n \in 1..MaxSessionRounds,
          fault \in DeleteRoundFaults :
           DeleteRound(caller, s, n, fault)
    \/ \E caller \in SessionAdmins, s \in SessionIds, n \in 1..MaxSessionRounds,
          now \in StartTimes, update_fails \in BOOLEAN :
           StartRound(caller, s, n, now, update_fails)
    \/ \E caller \in SessionAdmins, s \in SessionIds,
          status \in {"active", "completed"}, update_fails \in BOOLEAN :
           UpdateSession(caller, s, status, update_fails)
    \/ \E caller \in SessionAdmins, s \in SessionIds : ResetPoints(caller, s, {})
    \/ \E caller \in SessionAdmins, s \in SessionIds :
           ClearParticipants(caller, s, {}, {})

SpecSessions == InitSessions /\ [][NextSessions]_vars

----------------------------------------------------------------------------
(* Listing the sessions of several tenants *)

InitListing == EmptyStore

NextListing ==
    \/ \E caller \in SessionAdmins, media_type \in MediaTypes, put_fails \in BOOLEAN :
           CreateQuiz(caller, media_type, put_fails)
    \/ \E caller \in AnyCallers, scan_fails \in BOOLEAN :
           ListSessions(caller, scan_fails)

SpecListing == InitListing /\ [][NextListing]_vars

----------------------------------------------------------------------------
(* Profiles: participants register and rename themselves *)

InitProfile == EmptyStore

NextProfile ==
    \/ \E t \in TenantIds, name \in ProfileNames, get_fails, put_fails \in BOOLEAN :
          RegisterGlobalParticipant(t, name, get_fails, put_fails)
    \/ \E token \in ProfileTokens, p \in ParticipantIds,
          name \in ProfileNames \cup {None},
          get_fails, scan_fails, update_fails \in BOOLEAN :
          UpdateGlobalParticipant(token, p, name, get_fails, scan_fails,
                                  update_fails)

SpecProfile == InitProfile /\ [][NextProfile]_vars

----------------------------------------------------------------------------
(* Participant authentication: joins and profile updates while participants
   delete their accounts *)

InitAuth == InitJoin

NextAuth ==
    \/ \E w \in Workers :
          /\ FirstIdle(w)
          /\ \E token \in ParticipantCallers, s \in SessionIds,
                fault \in JoinFaults, as_decimal \in BOOLEAN :
                 JoinStart(w, token, s, fault, as_decimal)
    \/ \E w \in Workers :
          /\ inflight[w].op = "join"
          /\ \E put_fails \in BOOLEAN : JoinPut(w, put_fails)
    \/ \E token \in ProfileTokens, p \in ParticipantIds, name \in {"Ann", None},
          get_fails, scan_fails, update_fails \in BOOLEAN :
          UpdateGlobalParticipant(token, p, name, get_fails, scan_fails,
                                  update_fails)
    \/ \E token \in ParticipantCallers, p \in ParticipantIds,
          fault \in DeleteFaults, kept \in SUBSET (1..MaxJoins) :
           DeleteGlobalParticipant(token, p, fault, kept)

SpecAuth == InitAuth /\ [][NextAuth]_vars

----------------------------------------------------------------------------
(* The tenant access validators, on callers and resources drawn from bounded
   sets *)

TenantValues == TenantIds \cup {None, ""}

InitAccess ==
    /\ PlayTables /\ Quiet
    /\ participations = <<>>
    /\ nextId = 1
    /\ \E role \in AdminRoles, tenant_id \in TenantValues,
          resource_tenant_id \in TenantValues :
           calc = [role |-> role, tenantId |-> tenant_id,
                   resource |-> resource_tenant_id, by |-> None,
                   allowed |-> FALSE]

Decided(by, allowed) ==
    /\ calc.by = None
    /\ calc' = [calc EXCEPT !.by = by, !.allowed = allowed]
    /\ UNCHANGED <<admins, tokens, nextAdmin, deleted,
                   tenants, sessions, rounds, participants, participations,
                   answers, inflight, response, nextId, nextAnswer, faults,
                   addOk, created>>

ValidateByMiddleware ==
    Decided("tenant_middleware",
            validate_tenant_access_mw(calc, calc.resource))

ValidateByDb ==
    Decided("db", validate_tenant_access_db(calc.resource, calc.tenantId,
                                            calc.role))

ValidateInHandler ==
    Decided("handler", session_tenant_check(calc, calc.resource))

NextAccess == ValidateByMiddleware \/ ValidateByDb \/ ValidateInHandler

SpecAccess == InitAccess /\ [][NextAccess]_vars

----------------------------------------------------------------------------
(* Answering: concurrent answers of the joined participant, several per round *)

MaxSubmits == 2

InitAnswers == Init

NextAnswers ==
    \/ \E w \in Workers :
          /\ FirstIdle(w)
          /\ \E p \in ParticipantIds, s \in SessionIds, n \in {1, 2},
                answer \in AnswerInputs, now \in SubmitTimes, fault \in SubmitFaults :
                 SubmitStart(w, p, s, n, answer, now, fault)
    \/ \E w \in Workers :
          /\ inflight[w].op = "submit"
          /\ \E put_fails \in BOOLEAN, update_fails \in BOOLEAN :
                 /\ put_fails \/ nextAnswer <= MaxSubmits
                 /\ SubmitWrite(w, put_fails, update_fails)

SpecAnswers == InitAnswers /\ [][NextAnswers]_vars

----------------------------------------------------------------------------
(* Answering one at a time: no participation has two answers under way *)

\* Another request is between its read and its write for the participation
Overlaps(w, p, s) ==
    \E v \in Workers \ {w} :
        /\ inflight[v].op = "submit"
        /\ inflight[v].participantId = p
        /\ inflight[v].sessionId = s

InitSolo == Init

NextSolo ==
    \/ \E w \in Workers :
          /\ FirstIdle(w)
          /\ \E p \in ParticipantIds, s \in SessionIds, n \in {1, 2},
                answer \in AnswerInputs, now \in SubmitTimes, fault \in SubmitFaults :
                 /\ ~Overlaps(w, p, s)
                 /\ SubmitStart(w, p, s, n, answer, now, fault)
    \/ \E w \in Workers :
          /\ inflight[w].op = "submit"
          /\ \E put_fails \in BOOLEAN, update_fails \in BOOLEAN :
                 /\ put_fails \/ nextAnswer <= MaxSubmits
                 /\ SubmitWrite(w, put_fails, update_fails)
    \/ \E caller \in ScoreAdmins, s \in SessionIds, now \in StartTimes \cup {95},
          update_fails \in BOOLEAN :
           StartRound(caller, s, 1, now, update_fails)

SpecSolo == InitSolo /\ [][NextSolo]_vars

----------------------------------------------------------------------------
(* Numbering the rounds: rounds are added and deleted in any order *)

MaxAdds == 3

NumberingAdmins == {[role |-> "tenant_admin", tenantId |-> None],
                    [role |-> "tenant_admin", tenantId |-> "t1"]}

NumberingBodies == {[audioKey |-> FALSE, correctAnswer |-> c] : c \in {1, 2}}

InitNumbering == EmptyStore

NextNumbering ==
    \/ \E caller \in NumberingAdmins, put_fails \in BOOLEAN :
           CreateQuiz(caller, "none", put_fails)
    \/ \E caller \in NumberingAdmins, s \in SessionIds, body \in NumberingBodies,
          put_fails \in BOOLEAN, update_fails \in BOOLEAN :
           /\ addOk[s] < MaxAdds
           /\ AddRound(caller, s, body, put_fails, update_fails)
    \/ \E caller \in NumberingAdmins, s \in SessionIds, n \in 1..MaxAdds,
          fault \in DeleteRoundFaults :
           DeleteRound(caller, s, n, fault)

SpecNumbering == InitNumbering /\ [][NextNumbering]_vars

----------------------------------------------------------------------------
(* Deleting under play: sessions and participants are deleted while the
   joined participant answers *)

InitIntegrity == Init

NextIntegrity ==
    \/ \E w \in Workers :
          /\ FirstIdle(w)
          /\ \E p \in ParticipantIds, s \in SessionIds, answer \in AnswerInputs,
                now \in SubmitTimes, fault \in SubmitFaults :
                 SubmitStart(w, p, s, 1, answer, now, fault)
    \/ \E w \in Workers :
          /\ inflight[w].op = "submit"
          /\ \E put_fails \in BOOLEAN, update_fails \in BOOLEAN :
                 /\ put_fails \/ nextAnswer <= MaxAnswers
                 /\ SubmitWrite(w, put_fails, update_fails)
    \/ \E caller \in DeleteCallers, s \in SessionIds, fault \in DeleteSessionFaults,
          failed_files \in SUBSET (1..MaxDelRounds),
          kept_rounds \in SUBSET (1..MaxDelRounds) :
           DeleteSession(caller, s, fault, failed_files, kept_rounds)
    \/ \E token \in ParticipantCallers, p \in ParticipantIds,
          fault \in DeleteFaults, kept \in SUBSET (1..Len(JoinedRows)) :
           DeleteGlobalParticipant(token, p, fault, kept)

SpecIntegrity == InitIntegrity /\ [][NextIntegrity]_vars

----------------------------------------------------------------------------
(* Claims on round management and session reads *)

\* A caller of another tenant: the token carries a tenantId, the session
\* carries a different one, and the role is not super_admin
CrossTenant(caller, s) ==
    /\ s \in DOMAIN sessions
    /\ sessions[s].tenantId # None
    /\ caller.tenantId # None
    /\ caller.tenantId # sessions[s].tenantId
    /\ caller.role # "super_admin"

\* C1: every request on a session of tenant T1 by a caller of tenant
\* T2 # T1 that is not a super admin is answered 403 CROSS_TENANT_ACCESS;
\* stated for get_quiz, the handler the claim names.
C1_TenantIsolation ==
    [][\A caller \in AnyCallers, s \in SessionIds, query_fails \in BOOLEAN :
          GetQuiz(caller, s, query_fails) /\ CrossTenant(caller, s)
              => response' = error_response(403, "CROSS_TENANT_ACCESS")]_vars

\* An add-round request that passes authentication, the tenant check and the
\* body validation on an existing session
ValidAddRound(caller, s, body) ==
    /\ inline_admin_check(caller) = NoResponse
    /\ s \in DOMAIN sessions
    /\ ~SessionAccessDenied(caller, s)
    /\ ValidRoundBody(s, body)

\* C6: on a session that started without rounds, the k-th valid add-round
\* request that the store does not abort with a 5xx is answered 201 with
\* roundNumber k and creates that round for k <= 30, and is answered 409
\* MAX_ROUNDS_REACHED without touching the rounds once 30 have succeeded; no
\* session ever holds more than 30 round rows.
C6_RoundCap ==
    /\ [](\A s \in SessionIds : Cardinality(RoundsOf(s)) <= MAX_ROUNDS_PER_SESSION)
    /\ [][\A caller \in AdminCallers, s \in SessionIds, body \in CapBodies,
            put_fails \in BOOLEAN, update_fails \in BOOLEAN :
          /\ AddRound(caller, s, body, put_fails, update_fails)
          /\ ValidAddRound(caller, s, body)
          /\ response'.status < 500
          => IF addOk[s] < MAX_ROUNDS_PER_SESSION
                THEN /\ response' = Resp(201, "OK", addOk[s] + 1)
                     /\ RoundRow(s, addOk[s] + 1, body) \in rounds'
                     /\ Cardinality(RoundsOf(s)') = addOk[s] + 1
                ELSE /\ response' = error_response(409, "MAX_ROUNDS_REACHED")
                     /\ rounds' = rounds]_vars

----------------------------------------------------------------------------
(* Claims on joining *)

\* The stored rows of participant p for session s, by position
RowsOf(p, s) ==
    {i \in DOMAIN participations :
        /\ participations[i].participantId = p
        /\ participations[i].sessionId = s}

\* C2: in every reachable state there is at most one SessionParticipation
\* row per (participantId, sessionId) pair.
C2_OneParticipation ==
    \A p \in ParticipantIds, s \in SessionIds : Cardinality(RowsOf(p, s)) <= 1

\* A join by an authenticated participant who already holds a row for the
\* session, with no other join under way
Rejoin(token, s) ==
    /\ require_participant_auth(token, FALSE) = NoResponse
    /\ RowsOf(token.sub, s) # {}
    /\ \A w \in Workers : inflight[w] = Idle

\* C4: a join that follows a join of the same participant to the same
\* session is answered 200 with the participationId of the stored row,
\* creates no row and changes none (a 5xx of the store aside): it never
\* goes on to the creation of a row.
C4_IdempotentJoin ==
    [][\A w \in Workers, token \in ParticipantCallers, s \in SessionIds :
          /\ Rejoin(token, s)
          /\ \E fault \in JoinFaults, as_decimal \in BOOLEAN :
                 JoinStart(w, token, s, fault, as_decimal)
          => /\ participations' = participations
             /\ inflight' = inflight
             /\ \/ response'.status >= 500
                \/ \E i \in RowsOf(token.sub, s) :
                      response' = Resp(200, "OK", participations[i].participationId)]_vars

----------------------------------------------------------------------------
(* Claims on scoring *)

\* The sum of the points of a set of Answer rows
RECURSIVE SumPoints(_)
SumPoints(rows) ==
    IF rows = {} THEN 0
    ELSE LET a == CHOOSE x \in rows : TRUE
         IN a.points + SumPoints(rows \ {a})

\* C3: in every reachable state each SessionParticipation's totalPoints
\* equals the sum of the points of the Answer rows with its participationId.
C3_TotalIsSum ==
    \A i \in DOMAIN participations :
        participations[i].totalPoints =
            SumPoints({a \in answers :
                          a.participationId = participations[i].participationId})

\* Of the SessionParticipations only rows of participant p for session s
\* change, and none is added or removed
OnlyOwnRow(p, s) ==
    /\ Len(participations') = Len(participations)
    /\ \A i \in DOMAIN participations :
          i \notin RowsOf(p, s) => participations'[i] = participations[i]

\* C5: a submit_answer of participant p for session s changes totalPoints
\* and correctAnswers on no row but p's participation for s: its read step
\* changes no row at all, and no write step can end with another row changed.
C5_ScoreIsolation ==
    /\ \A w \in Workers, p \in ParticipantIds, s \in SessionIds :
          ~ENABLED (\E n \in {1, 2}, answer \in AnswerInputs, now \in SubmitTimes,
                       fault \in SubmitFaults :
                        /\ SubmitStart(w, p, s, n, answer, now, fault)
                        /\ participations' # participations)
    /\ \A w \in Workers :
          inflight[w].op = "submit"
          => ~ENABLED (\E put_fails \in BOOLEAN, update_fails \in BOOLEAN :
                          /\ SubmitWrite(w, put_fails, update_fails)
                          /\ ~OnlyOwnRow(inflight[w].participantId,
                                         inflight[w].sessionId))

\* p1 holds a row for s1 and one for s2; an answer for s2 has been counted on
\* the second while the first is as it was when p1 joined
C5_Witness ==
    /\ \E a \in answers : a.sessionId = "s2" /\ a.participantId = "p1" /\ a.points > 0
    /\ participations[2].sessionId = "s2"
    /\ participations[2].totalPoints > 0
    /\ participations[1] = JoinedRows[1]
    /\ response.status = 201

\* The time between the start of the round and the handler's clock reading
Elapsed == calc.now - calc.started[1]

\* C7: the points are 0 for a wrong answer; for a correct one 10 when at
\* most 2 seconds have passed since roundStartedAt, 8 when at most 5, 5
\* otherwise, and 5 when no start time was recorded; never negative.
C7_PointsTiers ==
    calc.done
    => /\ calc.answer # calc.correct_answer => calc.points = 0
       /\ calc.answer = calc.correct_answer /\ calc.started = <<>> => calc.points = 5
       /\ calc.answer = calc.correct_answer /\ calc.started # <<>>
          => calc.points = IF Elapsed <= 2 THEN 10
                           ELSE IF Elapsed <= 5 THEN 8 ELSE 5
       /\ calc.points >= 0

\* C7, with the start time that cannot be read: the points are 0 for a wrong
\* answer; for a correct one the tiers 10, 8, 5 apply when the session's
\* start time was read, and 5 is awarded when none was recorded or when
\* re-reading the session raises; never negative.
C7_PointsTiersReadable ==
    calc.done
    => /\ calc.answer # calc.correct_answer => calc.points = 0
       /\ calc.answer = calc.correct_answer
          /\ (calc.started = <<>> \/ calc.get_fails) => calc.points = 5
       /\ calc.answer = calc.correct_answer /\ calc.started # <<>> /\ ~calc.get_fails
          => calc.points = IF Elapsed <= 2 THEN 10
                           ELSE IF Elapsed <= 5 THEN 8 ELSE 5
       /\ calc.points >= 0

\* A correct answer exactly 2 seconds after the start of the round got 10
C7_Witness ==
    /\ calc.done
    /\ calc.answer = calc.correct_answer
    /\ calc.started # <<>> /\ ~calc.get_fails
    /\ Elapsed = 2
    /\ calc.points = 10

\* A submit_answer for (p, s) was refused for want of a participation: the
\* answer is 404 PARTICIPATION_NOT_FOUND (500 only when the lookup itself
\* raised), and neither a table nor an invocation in flight changes
RefusedNotJoined ==
    /\ response' \in {error_response(404, "PARTICIPATION_NOT_FOUND"),
                      error_response(500, "DATABASE_ERROR")}
    /\ faults' = faults => response'.status = 404
    /\ answers' = answers
    /\ participations' = participations
    /\ inflight' = inflight

\* C8: a submit_answer for a (participantId, sessionId) pair without a
\* SessionParticipation row is answered 404 PARTICIPATION_NOT_FOUND (500 when
\* the lookup itself raises), writes no Answer row, changes no counter and
\* does not proceed to the write step: no such request can end otherwise.
C8_JoinBeforeAnswer ==
    \A w \in Workers, p \in ParticipantIds, s \in SessionIds :
        RowsOf(p, s) = {}
        => ~ENABLED (\E n \in {1, 2}, answer \in AnswerInputs, now \in SubmitTimes,
                        fault \in SubmitFaults :
                         /\ SubmitStart(w, p, s, n, answer, now, fault)
                         /\ ~RefusedNotJoined)

\* p2, who joined no session, has just been refused while p1's rows exist
C8_Witness ==
    /\ response = error_response(404, "PARTICIPATION_NOT_FOUND")
    /\ RowsOf("p2", "s1") = {} /\ RowsOf("p2", "s2") = {}
    /\ RowsOf("p1", "s1") # {}
    /\ \A w \in Workers : inflight[w] = Idle

\* C9: while a session's status is completed no Answer row is appended for
\* it and no score of it changes, and a submit_answer of a joined participant
\* for it is answered 403 SESSION_COMPLETED (500 when a read raises) without
\* going on to the write step.
C9_CompletedIsFrozen ==
    [][/\ \A s \in SessionIds :
             sessions[s].status = "completed" /\ sessions'[s].status = "completed"
             => /\ AnswersOf(s)' \subseteq AnswersOf(s)
                /\ \A i \in DOMAIN participations :
                      participations[i].sessionId = s
                      => participations'[i] = participations[i]
       /\ \A w \in Workers, p \in ParticipantIds, s \in SessionIds :
             /\ sessions[s].status = "completed"
             /\ RowsOf(p, s) # {}
             /\ \E n \in {1, 2}, answer \in AnswerInputs, now \in SubmitTimes,
                   fault \in SubmitFaults :
                    SubmitStart(w, p, s, n, answer, now, fault)
             => /\ response' \in {error_response(403, "SESSION_COMPLETED"),
                                   error_response(500, "DATABASE_ERROR")}
                /\ inflight' = inflight]_vars

----------------------------------------------------------------------------
(* Claims on the scoreboard *)

\* An entry without its rank
Unranked(entry) ==
    [participantId |-> entry.participantId, name |-> entry.name,
     totalPoints |-> entry.totalPoints, correctAnswers |-> entry.correctAnswers]

\* The entries of a list that carry the given points, in their order
WithPoints(entries, v) == SelectSeq(entries, LAMBDA e : e.totalPoints = v)

\* C10: the scoreboard is sorted by totalPoints descending, the entries with
\* equal totalPoints stand in the order in which the participation query
\* returned them (so the scoreboard holds exactly the listed entries), and
\* the entry at position i carries rank i.
C10_ScoreboardOrder ==
    calc # <<>>
    => LET board == calc.scoreboard
           plain == [i \in DOMAIN board |-> Unranked(board[i])]
       IN /\ \A i, j \in DOMAIN board :
                i < j => board[i].totalPoints >= board[j].totalPoints
          /\ Len(board) = Len(calc.listed)
          /\ \A v \in ScoreValues : WithPoints(plain, v) = WithPoints(calc.listed, v)
          /\ \A i \in DOMAIN board : board[i].rank = i

\* The query returned a 5 before two 20s of different participants: the 20s
\* lead in their query order
C10_Witness ==
    /\ calc # <<>>
    /\ Len(calc.listed) = 3
    /\ calc.listed[1].totalPoints = 5
    /\ calc.listed[2].totalPoints = 20 /\ calc.listed[3].totalPoints = 20
    /\ calc.listed[2].participantId # calc.listed[3].participantId
    /\ Unranked(calc.scoreboard[1]) = calc.listed[2]
    /\ Unranked(calc.scoreboard[2]) = calc.listed[3]
    /\ calc.scoreboard[3].rank = 3

----------------------------------------------------------------------------
(* Claims on the participant listings *)

\* The profile of the participant exists and, when the session carries a
\* tenantId, belongs to that tenant
Backed(p, s) ==
    /\ p \in DOMAIN participants
    /\ sessions[s].tenantId # None => participants[p].tenantId = sessions[s].tenantId

AllBacked ==
    calc # <<>> => \A i \in DOMAIN calc.listed :
                      Backed(calc.listed[i].participantId, calc.sessionId)

\* C11: in the scoreboard and in the participants query alike, every entry
\* of a 200 response is backed by an existing GlobalParticipant of the
\* session's tenant: a participation whose participant is missing or of
\* another tenant is left out.
C11_OnlyBackedEntries ==
    [][\A s \in SessionIds, lost \in SUBSET ParticipantIds :
          (\/ GetScoreboard(s, FALSE, FALSE, lost)
           \/ \E caller \in AdminCallers : GetParticipants(caller, s, FALSE, FALSE, lost))
          => AllBacked']_vars

----------------------------------------------------------------------------
(* Claims on Delete Quiz Session *)

AudioRoundsOf(s) == {r \in RoundsOf(s) : r.audioKey}

----------------------------------------------------------------------------
(* Claims on tenants *)

TenantInactive == response.code = "TENANT_INACTIVE" /\ response.status \in {400, 403}

\* C14: while tenant T is inactive, a session creation by a tenant admin of
\* T, a creation of a tenant admin for T and a participant registration for
\* T are each refused with TENANT_INACTIVE and store nothing (the requests
\* whose store calls succeed).
C14_InactiveTenantRefuses ==
    \A t \in TenantIds :
        tenants[t] = "inactive"
        => /\ ~ENABLED (\E put_fails \in BOOLEAN :
                          /\ CreateQuiz([role |-> "tenant_admin", tenantId |-> t],
                                        "none", put_fails)
                          /\ ~(TenantInactive' /\ sessions' = sessions))
           /\ ~ENABLED (\E w \in Workers :
                          /\ FirstIdle(w)
                          /\ CreateTenantAdminStart(w, t, "bob", "pw2", "none")
                          /\ ~(/\ TenantInactive'
                               /\ admins' = admins /\ inflight' = inflight))
           /\ ~ENABLED (/\ RegisterGlobalParticipant(t, "Ann", FALSE, FALSE)
                        /\ ~(TenantInactive' /\ participants' = participants))

\* Tenant t1 was deleted, and a registration for it has been refused
C14_Witness ==
    /\ tenants["t1"] = "inactive"
    /\ response = error_response(403, "TENANT_INACTIVE")
    /\ participants = EmptyTable

----------------------------------------------------------------------------
(* Claims on admin accounts *)

\* C15: once a tenant admin is deleted, and as long as no admin is given its
\* username afterwards, every login with its username and password whose
\* query succeeds is answered 401 INVALID_CREDENTIALS.
C15_DeletedAdminCannotLogIn ==
    [][\A d \in deleted, password \in LoginPasswords, picked \in 1..MaxAdmins :
          /\ verify_password(password, d.passwordHash)
          /\ AdminLogin(d.username, password, FALSE, picked)
          => response' = error_response(401, "INVALID_CREDENTIALS")]_vars

\* C16: a bearer token of a deleted admin, issued before the deletion and not
\* expired, is refused by an admin-protected handler; stated for create_quiz.
C16_DeletedAdminTokenRefused ==
    [][\A token \in tokens :
          token.sub \notin DOMAIN admins /\ CreateQuiz(token, "none", FALSE)
          => response'.status >= 400 /\ sessions' = sessions]_vars

\* C19: no two Admin rows carry the same username.
C19_UniqueUsernames ==
    \A a, b \in DOMAIN admins :
        a # b /\ admins[a].username # None => admins[a].username # admins[b].username

----------------------------------------------------------------------------
(* Claims on the tenant of a session *)

\* C17: the session a create_quiz request stores carries the tenantId of the
\* creating admin's token, and no later step of update_session, add_round,
\* delete_round, start_round, reset_points or clear_participants gives a
\* stored session another tenantId.
C17_TenantSetOnce ==
    /\ \A caller \in SessionAdmins :
          ~ENABLED (\E put_fails \in BOOLEAN :
                       /\ CreateQuiz(caller, "none", put_fails)
                       /\ response'.status = 201
                       /\ ~(\E s \in DOMAIN sessions' \ DOMAIN sessions :
                               sessions'[s].tenantId = caller.tenantId))
    /\ \A s \in DOMAIN sessions :
          ~ENABLED (/\ NextSessions
                    /\ ~(s \in DOMAIN sessions'
                         /\ sessions'[s].tenantId = sessions[s].tenantId))

\* The session created by the admin of t1 has been activated and completed,
\* the one created without a tenant has got a round and had it started
C17_Witness ==
    /\ DOMAIN sessions = SessionIds
    /\ \E s \in SessionIds :
          sessions[s].tenantId = "t1" /\ sessions[s].status = "completed"
    /\ \E s \in SessionIds :
          /\ sessions[s].tenantId = None
          /\ sessions[s].roundCount = 1 /\ sessions[s].roundStartedAt # <<>>

----------------------------------------------------------------------------
(* Claims on the session list *)

\* C18: the list a tenant admin gets holds only sessions whose tenantId is
\* the admin's tenantId (so the lists of admins of two tenants are disjoint).
C18_ListOnlyOwnSessions ==
    [][\A caller \in PlayAdmins :
          ListSessions(caller, FALSE) /\ response'.status = 200
          => \A i \in DOMAIN calc'.listing :
                sessions[calc'.listing[i]].tenantId = caller.tenantId]_vars


\* Another participant of the same tenant holds the name
NameTaken(p, name) ==
    \E q \in DOMAIN participants :
        /\ q # p
        /\ participants[q].tenantId = participants[p].tenantId
        /\ participants[q].name = name

\* C20: an authenticated participant's profile update that sets the name to
\* one another GlobalParticipant of the same tenant already holds is answered
\* 409 NICKNAME_TAKEN, or with a server error, and leaves the GlobalParticipants
\* table as it was.
C20_TakenNameRejected ==
    [][\A token \in ProfileTokens, name \in ProfileNames,
          get_fails, scan_fails, update_fails \in BOOLEAN :
          (/\ require_participant_auth(token, FALSE) = NoResponse
           /\ name # participants[token.sub].name
           /\ NameTaken(token.sub, name)
           /\ UpdateGlobalParticipant(token, token.sub, name, get_fails,
                                      scan_fails, update_fails))
          => /\ participants' = participants
             /\ \/ response'.status >= 500
                \/ response' = error_response(409, "NICKNAME_TAKEN")]_vars


----------------------------------------------------------------------------
(* Claims on participant authentication, round deletion and access validation *)

\* The tables a participant request can write
ParticipantTables == <<participants, participations, answers>>

\* A join or a profile update with the token that is not answered with the
\* error (a store fault may turn the answer into a server error), or that
\* writes a row or goes on to its write step
AcceptedDespite(token, error) ==
    LET Refused == /\ \/ response' = error
                      \/ response'.status >= 500 /\ faults' > faults
                   /\ ParticipantTables' = ParticipantTables
                   /\ inflight' = inflight
    IN
    \/ \E w \in Workers, s \in SessionIds, fault \in JoinFaults,
          as_decimal \in BOOLEAN :
          JoinStart(w, token, s, fault, as_decimal) /\ ~Refused
    \/ \E name \in {"Ann", None}, get_fails, scan_fails, update_fails \in BOOLEAN :
          UpdateGlobalParticipant(token, token.sub, name, get_fails, scan_fails,
                                  update_fails) /\ ~Refused

AuthorisedFor(caller, s) ==
    \/ caller.role = "super_admin"
    \/ /\ caller.role \in AdminRoles
       /\ sessions[s].tenantId # None
       /\ caller.tenantId = sessions[s].tenantId

\* C22: a delete-round request of an admin of the session's tenant, or of a
\* super admin, for an existing round of the session, no store call failing,
\* is answered 200, removes the Round row and sets the session's roundCount
\* to the number of Round rows the session has left.
C22_DeleteRoundRecounts ==
    [][\A caller \in SessionAdmins, s \in SessionIds, n \in 1..MaxSessionRounds :
          (/\ s \in DOMAIN sessions
           /\ RoundAt(s, n) # {}
           /\ AuthorisedFor(caller, s)
           /\ DeleteRound(caller, s, n, "none"))
          => /\ response'.status = 200
             /\ rounds' = rounds \ RoundAt(s, n)
             /\ sessions'[s].roundCount = Cardinality(RoundsOf(s) \ RoundAt(s, n))
      ]_vars


\* The decision of the Tenant Access Validator as specified
Allows(role, tenant_id, resource_tenant_id) ==
    \/ role = "super_admin"
    \/ Falsy(resource_tenant_id)
    \/ tenant_id = resource_tenant_id

\* C23 as stated: validate_tenant_access of tenant_middleware and of db both
\* allow exactly when the caller is a super admin, the resource has no
\* tenantId, or the caller's tenantId equals the resource's.
C23_BothValidatorsAgree ==
    calc.by \in {"tenant_middleware", "db"}
        => calc.allowed = Allows(calc.role, calc.tenantId, calc.resource)

\* C23: validate_tenant_access of db, and the check the handlers make with the
\* one of tenant_middleware (called only for a resource that has a tenantId),
\* allow exactly when the caller is a super admin, the resource has no
\* tenantId, or the caller's tenantId equals the resource's.  Called on its
\* own, the one of tenant_middleware allows exactly a super admin and a caller
\* whose tenantId equals the resource's.
C23_ValidatorDecision ==
    /\ calc.by \in {"db", "handler"}
          => calc.allowed = Allows(calc.role, calc.tenantId, calc.resource)
    /\ calc.by = "tenant_middleware"
          => calc.allowed = (\/ calc.role = "super_admin"
                             \/ calc.tenantId = calc.resource)

\* db.validate_tenant_access has allowed a tenant admin on a resource that
\* has no tenantId
C23_Witness ==
    /\ calc.by = "db"
    /\ calc.role = "tenant_admin"
    /\ calc.tenantId = "t1"
    /\ calc.resource = None
    /\ calc.allowed


\* C24: a delete-session request from a caller the Tenant Access Validator
\* denies for the session leaves the Session row and the Round rows of the
\* session as they were.
C24_DeniedCallerMutatesNothing ==
    [][\A caller \in DeleteCallers, s \in SessionIds,
          fault \in DeleteSessionFaults,
          failed_files, kept_rounds \in SUBSET (1..MaxDelRounds) :
          (/\ s \in DOMAIN sessions
           /\ ~validate_tenant_access_db(sessions[s].tenantId, caller.tenantId,
                                         caller.role)
           /\ DeleteSession(caller, s, fault, failed_files, kept_rounds))
          => sessions' = sessions /\ rounds' = rounds]_vars


----------------------------------------------------------------------------
(* Claims on answers, counters and referential integrity *)

\* The write step of the request ends with exactly one Answer row more, the
\* row of this request, when it answers 201, and with the Answer rows as they
\* were otherwise
AppendsOne(l) ==
    IF response'.status = 201
        THEN /\ answers \subseteq answers'
             /\ Cardinality(answers') = Cardinality(answers) + 1
             /\ \A a \in answers' \ answers :
                   /\ a.answerId \notin {b.answerId : b \in answers}
                   /\ a.participationId = l.participationId
                   /\ a.roundNumber = l.roundNumber
                   /\ a.answer = l.answer
        ELSE answers' = answers

\* C25: a submit_answer that answers 201 has added exactly one Answer row
\* under a new answerId, and no submit_answer changes or removes a stored
\* Answer row, whatever other requests run at the same time and whether or
\* not the counter update fails: the read step stores nothing and answers
\* with an error when it answers at all, the write step appends one row.
C25_AnswersAppendOnly ==
    /\ \A w \in Workers :
          ~ENABLED (\E p \in ParticipantIds, s \in SessionIds, n \in {1, 2},
                       answer \in AnswerInputs, now \in SubmitTimes,
                       fault \in SubmitFaults :
                        /\ SubmitStart(w, p, s, n, answer, now, fault)
                        /\ \/ answers' # answers
                           \/ inflight' = inflight /\ response'.status = 201)
    /\ \A w \in Workers :
          inflight[w].op = "submit"
          => ~ENABLED (\E put_fails \in BOOLEAN, update_fails \in BOOLEAN :
                          /\ SubmitWrite(w, put_fails, update_fails)
                          /\ ~AppendsOne(inflight[w]))

\* The same round has been answered twice by the same participation, the
\* second answer stored although its counter update failed
C25_Witness ==
    /\ \E a, b \in answers :
          /\ a.answerId # b.answerId
          /\ a.participationId = b.participationId
          /\ a.roundNumber = b.roundNumber
    /\ response.status = 201
    /\ faults > 0


\* The write step adds the points of the request to the totalPoints of its
\* participation, and 1 to the correctAnswers when the answer is correct
CountersAdvance(l) ==
    LET i == IndexOfId(l.participationId)
        row == CHOOSE r \in RoundAt(l.sessionId, l.roundNumber) : TRUE
    IN
    /\ i # 0
    /\ Len(participations') = Len(participations)
    /\ participations'[i].totalPoints
           = participations[i].totalPoints + l.points
    /\ participations'[i].correctAnswers
           = participations[i].correctAnswers
               + (IF l.answer = row.correctAnswer THEN 1 ELSE 0)
    /\ l.answer # row.correctAnswer => l.points = 0
    /\ l.answer = row.correctAnswer => l.points \in {5, 8, 10}

\* C26: when no other submit_answer for the same participation is under way
\* between the read and the write of a submit_answer, and neither its put nor
\* its counter update fails, the write raises the participation's totalPoints
\* by the points awarded and its correctAnswers by 1 for a correct answer and
\* by 0 for a wrong one.
C26_CountersAddUp ==
    \A w \in Workers :
        inflight[w].op = "submit"
        => ~ENABLED (/\ SubmitWrite(w, FALSE, FALSE)
                     /\ ~CountersAdvance(inflight[w]))

\* Two answers of the same participation, one after the other, both correct:
\* the row holds the sum of their points and counts both
C26_Witness ==
    /\ response.status = 201
    /\ \E i \in DOMAIN participations :
          /\ participations[i].correctAnswers = 2
          /\ participations[i].totalPoints = 15


\* C27: as long as no store call has failed, an add-round request that is
\* answered 201 has stored its round under a roundNumber that no round of the
\* session had before, and every round stored before is still stored as it
\* was; rounds may have been deleted in between.
C27_AddNeverOverwrites ==
    [][\A caller \in NumberingAdmins, s \in SessionIds, body \in NumberingBodies :
          (/\ faults = 0
           /\ AddRound(caller, s, body, FALSE, FALSE)
           /\ response'.status = 201)
          => /\ RoundAt(s, sessions[s].roundCount + 1) = {}
             /\ rounds \subseteq rounds']_vars


\* C28: after a Reset Points on a session that is answered 200, no answer
\* delete failing, every SessionParticipation of the session has totalPoints 0
\* and correctAnswers 0.
C28_ResetZeroesCounters ==
    [][\A caller \in ScoreAdmins, s \in SessionIds :
          (/\ ResetPoints(caller, s, {})
           /\ response'.status = 200)
          => \A i \in DOMAIN participations' :
                participations'[i].sessionId = s
                => /\ participations'[i].totalPoints = 0
                   /\ participations'[i].correctAnswers = 0]_vars


\* The token is a participant token of participant p
AuthenticatedAs(token, p) == token.role = "participant" /\ token.sub = p

\* C29: a submit_answer request whose token is not a participant token of the
\* participantId in its body is answered with an error and does not go on
\* to store an Answer row.
C29_OnlyOwnAnswers ==
    [][\A token \in ParticipantCallers, w \in Workers, p \in ParticipantIds,
          s \in SessionIds, n \in {1, 2}, answer \in AnswerInputs,
          now \in SubmitTimes :
          (/\ ~AuthenticatedAs(token, p)
           /\ SubmitRequest(token, w, p, s, n, answer, now, "none"))
          => /\ response'.status >= 400
             /\ inflight' = inflight]_vars


\* The row refers to a stored QuizSession and a stored GlobalParticipant
Anchored(row) ==
    /\ row.sessionId \in DOMAIN sessions
    /\ row.participantId \in DOMAIN participants

\* C30: as long as no store call has failed and no answer is under way, every
\* SessionParticipation row and every Answer row refers to a QuizSession and
\* a GlobalParticipant that are stored.
C30_NoOrphanRows ==
    (faults = 0 /\ \A w \in Workers : inflight[w] = Idle)
    => /\ \A i \in DOMAIN participations : Anchored(participations[i])
       /\ \A a \in answers : Anchored(a)

====
